---- MODULE Spec2Model ----
(***************************************************************************)
(* Control-mapping orchestration engine of the ISM-NIST mapper:            *)
(* ControlService (catalog store), OllamaService (analysis and batch       *)
(* driver) and MappingEngine (jobs, mapping state, overrides).             *)
(***************************************************************************)
EXTENDS Integers, Sequences, FiniteSets, TLC

VARIABLES
    ismControls,      \* ControlService.ismControls: sequence of ISM control ids
    nistControls,     \* ControlService.nistControls: sequence of NIST control records
    loadingStatus,    \* ControlService.loadingStatus
    loadPc,           \* how many admitted loadAllControls() calls await each source
    aiService,        \* MappingEngine.aiService is set
    jobs,             \* the ProcessingJob objects, by job id
    activeJobs,       \* MappingEngine.activeJobs: ids registered in the table
    run,              \* position of each job's batchAnalyzeControls
    objs,             \* the MappingResult objects, by reference
    mappingResults,   \* MappingEngine.mappingResults: ISM id -> reference
    resultsQueue,     \* MappingEngine.resultsQueue
    statusLog,        \* history: every value assigned to each job's status
    progressLog,      \* history: every onProgress invocation of each job
    overrideCount,    \* history: number of applyManualOverride calls made
    delivered,        \* history: the queue items getNewResults has returned
    resetPending,     \* history: reset() was called and initialize() not since
    lastCall          \* history: the public call made by the last step

vars == <<ismControls, nistControls, loadingStatus, loadPc, aiService, jobs,
          activeJobs, run, objs, mappingResults, resultsQueue, statusLog,
          progressLog, overrideCount, delivered, resetPending,
          lastCall>>

catalogVars == <<ismControls, nistControls, loadingStatus, loadPc>>
engineVars == <<aiService, jobs, activeJobs, run, objs, mappingResults,
                resultsQueue, statusLog, progressLog, overrideCount,
                delivered, resetPending>>

----------------------------------------------------------------------------
(* Bounds of the model *)

MaxJobs == 2
MaxOverrides == 2

Null == "null"
NoJob == 0

(* The optional controlIds argument of startProcessing: absent, or a list *)
NoArg == [given |-> FALSE, ids |-> <<>>]
Ids(s) == [given |-> TRUE, ids |-> s]

JobIds == 1 .. MaxJobs

(* Source-A identifiers: those a catalog can hold, and one no catalog holds *)
CatalogISMIds == {"ism-001", "ism-002"}
UnknownISMId == "ism-999"
ISMIds == CatalogISMIds \cup {UnknownISMId}

(* What the catalog loader can return *)
ISMCatalog == <<"ism-001", "ism-002">>
ISMCatalogs == { ISMCatalog, <<>> }

NistAC1 == [id |-> "ac-1", title |-> "Access Control Policy",
            description |-> "Access control policy description"]
NistSC7 == [id |-> "sc-7", title |-> "Boundary Protection", description |-> ""]
NISTCatalog == <<NistAC1, NistSC7>>
NISTCatalogs == { NISTCatalog, <<>> }

(* What a later load can return: one control less, and the source-B catalog *)
(* of another revision, AC-1 retitled and SC-7 gone                         *)
ISMCatalogShort == <<"ism-001">>
NistAC1Revised == [id |-> "ac-1", title |-> "Policy and Procedures",
                   description |-> "Revised description"]
NISTCatalogRevised == <<NistAC1Revised>>

(* Error messages *)
ErrNotInitialized == "Ollama service not initialized"
ErrNotReady == "Control service not ready. Please load controls first."
ErrNotAvailable == "Ollama service not available"
ErrAnalysis == "Ollama analysis failed"
ErrNoISM == "No ISM controls found to process"
ErrNoNIST == "No NIST controls loaded for mapping reference"
ErrAlreadyLoading == "Controls are already being loaded"
ErrLoadISM == "Failed to load ISM controls"
ErrLoadNIST == "Failed to load NIST controls"

----------------------------------------------------------------------------
(* Strings: the case conversions of the identifiers the model uses *)

toUpperCase(s) ==
    CASE s = "ac-1" -> "AC-1"
      [] s = "sc-7" -> "SC-7"
      [] s = " ac-1 " -> " AC-1 "
      [] OTHER -> s

toLowerCase(s) ==
    CASE s = "AC-1" -> "ac-1"
      [] s = "SC-7" -> "sc-7"
      [] s = " AC-1 " -> " ac-1 "
      [] OTHER -> s

trim(s) ==
    CASE s = " ac-1 " -> "ac-1"
      [] s = " AC-1 " -> "AC-1"
      [] OTHER -> s

SeqToSet(s) == { s[n] : n \in 1 .. Len(s) }

Min(a, b) == IF a < b THEN a ELSE b
Max(a, b) == IF a > b THEN a ELSE b

(* Mutant: the quotient inverted, total / completed *)
RoundPercent_inverted(x, y) == (200 * y + x) \div (2 * x)

(* Math.round(x / y * 100) for y > 0: halves round up *)
RoundPercent(x, y) == (200 * x + y) \div (2 * y)

----------------------------------------------------------------------------
(* ControlService *)

isReady == loadingStatus.ismControlsLoaded /\ loadingStatus.nistControlsLoaded

getISMControlById(id) ==
    IF \E n \in 1 .. Len(ismControls) : ismControls[n] = id THEN id ELSE Null

(* lastCall after a step that is no call of loadAllControls or startProcessing *)
Internal == [op |-> "internal", arg |-> NoArg, error |-> Null, ret |-> NoJob]
Called(op, arg, error, ret) == [op |-> op, arg |-> arg, error |-> error, ret |-> ret]

(* The admitted loadAllControls() calls that have not finished *)
MaxLoads == 2
NoLoad == [ism |-> 0, nist |-> 0]
LoadsInFlight == loadPc.ism + loadPc.nist

(* loadAllControls() while the guard is clear, up to its first await *)
LoadAllControls ==
    /\ ~loadingStatus.isLoading
    /\ LoadsInFlight < MaxLoads
    /\ loadingStatus' = [loadingStatus EXCEPT !.isLoading = TRUE, !.error = Null]
    /\ loadPc' = [loadPc EXCEPT !.ism = @ + 1]
    /\ lastCall' = Called("loadAllControls", NoArg, Null, NoJob)
    /\ UNCHANGED <<ismControls, nistControls, engineVars>>

(* What a rejected loadAllControls() leaves of the catalog store's state *)
rejectLoad(st) == st

(* loadAllControls() while the guard is set: it throws *)
LoadAllControlsRejected ==
    /\ loadingStatus.isLoading
    /\ loadingStatus' = rejectLoad(loadingStatus)
    /\ lastCall' = Called("loadAllControls", NoArg, ErrAlreadyLoading, NoJob)
    /\ UNCHANGED <<ismControls, nistControls, loadPc, engineVars>>

(* oscalParser.loadISMControls() resolves: loadISMControls stores the list,  *)
(* and loadAllControls goes on to loadNISTControls                           *)
LoadISMResolved(cat) ==
    /\ loadPc.ism > 0
    /\ ismControls' = cat
    /\ loadingStatus' = [loadingStatus EXCEPT !.ismControlsLoaded = TRUE,
                                              !.ismControlCount = Len(cat)]
    /\ loadPc' = [loadPc EXCEPT !.ism = @ - 1, !.nist = @ + 1]
    /\ lastCall' = Internal
    /\ UNCHANGED <<nistControls, engineVars>>

(* oscalParser.loadISMControls() rejects: flags cleared, loadAllControls     *)
(* records the message and its finally clause clears the guard               *)
LoadISMRejected ==
    /\ loadPc.ism > 0
    /\ loadingStatus' = [loadingStatus EXCEPT !.ismControlsLoaded = FALSE,
                                              !.ismControlCount = 0,
                                              !.error = ErrLoadISM,
                                              !.isLoading = FALSE]
    /\ loadPc' = [loadPc EXCEPT !.ism = @ - 1]
    /\ lastCall' = Internal
    /\ UNCHANGED <<ismControls, nistControls, engineVars>>

LoadNISTResolved(cat) ==
    /\ loadPc.nist > 0
    /\ nistControls' = cat
    /\ loadingStatus' = [loadingStatus EXCEPT !.nistControlsLoaded = TRUE,
                                              !.nistControlCount = Len(cat),
                                              !.isLoading = FALSE]
    /\ loadPc' = [loadPc EXCEPT !.nist = @ - 1]
    /\ lastCall' = Internal
    /\ UNCHANGED <<ismControls, engineVars>>

(* Mutant: a failure on the second source rolls the first one back *)
LoadNISTRejected_rollsBack ==
    /\ loadPc.nist > 0
    /\ loadingStatus' = [loadingStatus EXCEPT !.nistControlsLoaded = FALSE,
                                              !.nistControlCount = 0,
                                              !.ismControlsLoaded = FALSE,
                                              !.ismControlCount = 0,
                                              !.error = ErrLoadNIST,
                                              !.isLoading = FALSE]
    /\ loadPc' = [loadPc EXCEPT !.nist = @ - 1]
    /\ lastCall' = Internal
    /\ UNCHANGED <<ismControls, nistControls, engineVars>>

LoadNISTRejected ==
    /\ loadPc.nist > 0
    /\ loadingStatus' = [loadingStatus EXCEPT !.nistControlsLoaded = FALSE,
                                              !.nistControlCount = 0,
                                              !.error = ErrLoadNIST,
                                              !.isLoading = FALSE]
    /\ loadPc' = [loadPc EXCEPT !.nist = @ - 1]
    /\ lastCall' = Internal
    /\ UNCHANGED <<ismControls, nistControls, engineVars>>

(* Mutant: reset() keeps the guard of a load in flight *)
resetStatus_keepsGuard(st) ==
    [isLoading |-> st.isLoading, ismControlsLoaded |-> FALSE,
     nistControlsLoaded |-> FALSE, ismControlCount |-> 0,
     nistControlCount |-> 0, error |-> Null]

(* The fresh status object reset() installs *)
resetStatus(st) ==
    [isLoading |-> FALSE, ismControlsLoaded |-> FALSE,
     nistControlsLoaded |-> FALSE, ismControlCount |-> 0,
     nistControlCount |-> 0, error |-> Null]

(* Mutant: the reset of the catalogs empties the mapping state too *)
ControlServiceReset_cascades ==
    /\ ismControls' = << >>
    /\ nistControls' = << >>
    /\ loadingStatus' = resetStatus(loadingStatus)
    /\ mappingResults' = << >>
    /\ lastCall' = Called("ControlService.reset", NoArg, Null, NoJob)
    /\ UNCHANGED <<loadPc, aiService, jobs, activeJobs, run, objs, resultsQueue,
                   statusLog, progressLog, overrideCount, delivered, resetPending>>

(* ControlService.reset(), at any moment: the loads in flight go on *)
ControlServiceReset ==
    /\ ismControls' = << >>
    /\ nistControls' = << >>
    /\ loadingStatus' = resetStatus(loadingStatus)
    /\ lastCall' = Called("ControlService.reset", NoArg, Null, NoJob)
    /\ UNCHANGED <<loadPc, engineVars>>

----------------------------------------------------------------------------
(* OllamaService: the model's answer and its parsing *)

Concurrency == 1
AiModel == "llama3.1"
FallbackConfidence == 50
FallbackReasoning ==
    "Automated mapping failed - manual review required. Raw response parsing error."
Reasoning == "Expert analysis"

(* A response text, by what JSON extraction finds in it:                     *)
(*   json      "none" (no {...} in the text), "invalid" (JSON.parse throws)  *)
(*             or "object"                                                   *)
(*   kind      of its mappings field: "missing", "notArray" or "array"       *)
(*   mappings  the elements of the array                                     *)
(* An element's absent field is Missing (a string or number field).          *)
(* NotAString stands for an id that is a JSON number.                         *)
Missing == "missing"
MissingNumber == -1000
NotAString == "5 (number)"

El(id, c, r) == [nistControlId |-> id, confidence |-> c, reasoning |-> r]
Content(j, k, m) == [json |-> j, kind |-> k, mappings |-> m]

RespOne == Content("object", "array", << El("ac-1", 85, Reasoning) >>)
RespDuplicate == Content("object", "array", << El("AC-1", 80, Reasoning),
                                               El(" ac-1 ", 120, Reasoning) >>)
RespInvalid == Content("invalid", "missing", <<>>)
RespEmpty == Content("object", "array", <<>>)
Responses == { RespOne, RespDuplicate }

normalizeNistControlId(controlId) == trim(toUpperCase(controlId))

FallbackMappings ==
    << [nistControlId |-> normalizeNistControlId("AC-1"),
        confidence |-> FallbackConfidence,
        reasoning |-> FallbackReasoning] >>

ValidElement(m) ==
    /\ m.nistControlId # Missing /\ m.nistControlId # ""
    /\ m.confidence # MissingNumber
    /\ m.reasoning # Missing /\ m.reasoning # ""

(* controlId.toUpperCase() throws a TypeError unless the id is a string; *)
(* the throw is inside the try block                                    *)
CanNormalize(m) == m.nistControlId # NotAString

(* Mutant: no lower limit *)
clampConfidence_upperOnly(confidence) == Min(100, confidence)

clampConfidence(confidence) == Max(0, Min(100, confidence))

normalized(m) ==
    [nistControlId |-> normalizeNistControlId(m.nistControlId),
     confidence |-> clampConfidence(m.confidence),
     reasoning |-> m.reasoning]

(* Mutant: the elements that fail the check are dropped *)
parseResponse_dropsInvalid(content) ==
    IF content.json # "object" THEN FallbackMappings
    ELSE IF content.kind # "array" THEN FallbackMappings
    ELSE LET good == SelectSeq(content.mappings,
                               LAMBDA m : ValidElement(m) /\ CanNormalize(m))
         IN  [ n \in 1 .. Len(good) |-> normalized(good[n]) ]

parseResponse(content) ==
    IF content.json # "object" THEN FallbackMappings
    ELSE IF content.kind # "array" THEN FallbackMappings
    ELSE IF \E n \in 1 .. Len(content.mappings) :
                ~ValidElement(content.mappings[n]) \/ ~CanNormalize(content.mappings[n])
         THEN FallbackMappings
    ELSE [ n \in 1 .. Len(content.mappings) |-> normalized(content.mappings[n]) ]

(* The response texts the parser is given on its own *)
MaxMappings == 2
ParsedIds == { "ac-1", " ac-1 " }
ParsedConfidences == { -5, 0, 50, 100, 120 }
GoodElements == { El(id, c, Reasoning) : id \in ParsedIds, c \in ParsedConfidences }
BadElements ==
    { El(Missing, 50, Reasoning), El("", 50, Reasoning), El(NotAString, 50, Reasoning),
      El("ac-1", MissingNumber, Reasoning), El("ac-1", 0, Missing), El("ac-1", 0, "") }
MappingsArrays ==
    UNION { [1 .. n -> GoodElements \cup BadElements] : n \in 0 .. MaxMappings }
(* The prompt asks for "up to 3" mappings; the answer may hold more *)
PromptedMappings == 3
LongArrays ==
    UNION { [1 .. n -> { El("ac-1", 50, Reasoning), El(" ac-1 ", 100, Reasoning) }] :
              n \in MaxMappings + 1 .. PromptedMappings + 1 }
ParseInputs ==
    { Content("none", "missing", <<>>), RespInvalid,
      Content("object", "missing", <<>>), Content("object", "notArray", <<>>) }
    \cup { Content("object", "array", m) : m \in MappingsArrays \cup LongArrays }

(* What one analyzeControlMapping call settles to inside batchAnalyzeControls: *)
(* { control, result, success: true } or { control, error, success: false }   *)
ProcessingTimes == { 1200 }
Succeeded(content, t) ==
    [success |-> TRUE, mappings |-> parseResponse(content), processingTime |-> t]
Failed == [success |-> FALSE, mappings |-> <<>>, processingTime |-> 0]
OutcomesOf(responses) ==
    { Failed } \cup { Succeeded(c, t) : c \in responses, t \in ProcessingTimes }

----------------------------------------------------------------------------
(* MappingEngine *)

(* References to MappingResult objects: <<job, index>> for the object a job  *)
(* builds for the index-th control of its batch, <<0, n>> for the object an  *)
(* override creates for the n-th source-A identifier                         *)
IdIndex(id) == CASE id = "ism-001" -> 1 [] id = "ism-002" -> 2 [] OTHER -> 3
JobRef(j, idx) == <<j, idx>>
OverrideRef(id) == <<0, IdIndex(id)>>

getNISTControlMetadata(nistControlId) ==
    LET hits == { n \in 1 .. Len(nistControls) :
                    toLowerCase(nistControls[n].id) = toLowerCase(nistControlId) }
        first == CHOOSE n \in hits : \A m \in hits : n <= m
    IN  [title |-> IF hits = {} \/ nistControls[first].title = ""
                   THEN "Unknown" ELSE nistControls[first].title,
         description |-> IF hits = {} \/ nistControls[first].description = ""
                         THEN "Description not available"
                         ELSE nistControls[first].description]

(* The mutable state the orchestration of one job writes *)
World == [jobs |-> jobs, run |-> run, objs |-> objs,
          mappingResults |-> mappingResults, resultsQueue |-> resultsQueue,
          statusLog |-> statusLog, progressLog |-> progressLog]

Put(f, k, v) == [x \in DOMAIN f \cup {k} |-> IF x = k THEN v ELSE f[x]]

setStatus(w, j, s) ==
    [w EXCEPT !.jobs[j].status = s, !.statusLog[j] = Append(@, s)]

(* The MappingResult the progress callback builds from an analysis result *)
mappingResultOf(controlId, mappings, processingTime) ==
    [ismControlId |-> controlId,
     nistMappings |->
        [ n \in 1 .. Len(mappings) |->
            [nistControlId |-> mappings[n].nistControlId,
             confidence |-> mappings[n].confidence,
             reasoning |-> mappings[n].reasoning,
             nistTitle |-> getNISTControlMetadata(mappings[n].nistControlId).title,
             nistDescription |->
                 getNISTControlMetadata(mappings[n].nistControlId).description,
             isManualOverride |-> FALSE] ],
     aiModel |-> AiModel,
     processingTime |-> processingTime]

(* Mutant: the callback pushes a queue item whether or not it got a result *)
onProgress_alwaysPushes(w, j, completed, total, hasResult, controlId, result, ref) ==
    LET w1 == [w EXCEPT !.jobs[j].processedControls = completed,
                        !.jobs[j].progress = RoundPercent(completed, total),
                        !.progressLog[j] =
                            Append(@, [completed |-> completed, total |-> total,
                                       hasResult |-> hasResult,
                                       controlId |-> controlId]),
                        !.resultsQueue = Append(@, [jobId |-> j, result |-> ref])]
    IN  IF hasResult
        THEN [w1 EXCEPT !.objs = Put(@, ref, mappingResultOf(controlId, result.mappings,
                                                                  result.processingTime)),
                        !.mappingResults = Put(@, controlId, ref),
                        !.jobs[j].results = Put(@, controlId, ref)]
        ELSE w1

(* Mutant: an entry that exists is merged into, its correspondences kept *)
onProgress_mergesEntry(w, j, completed, total, hasResult, controlId, result, ref) ==
    LET w1 == [w EXCEPT !.jobs[j].processedControls = completed,
                        !.jobs[j].progress = RoundPercent(completed, total),
                        !.progressLog[j] =
                            Append(@, [completed |-> completed, total |-> total,
                                       hasResult |-> hasResult,
                                       controlId |-> controlId])]
        fresh == mappingResultOf(controlId, result.mappings, result.processingTime)
        merged == IF controlId \in DOMAIN w.mappingResults
                  THEN [fresh EXCEPT !.nistMappings =
                           @ \o w.objs[w.mappingResults[controlId]].nistMappings]
                  ELSE fresh
    IN  IF hasResult
        THEN [w1 EXCEPT !.objs = Put(@, ref, merged),
                        !.mappingResults = Put(@, controlId, ref),
                        !.jobs[j].results = Put(@, controlId, ref),
                        !.resultsQueue = Append(@, [jobId |-> j, result |-> ref])]
        ELSE w1

(* Mutant: the callback writes nothing for a job that reset() took out of *)
(* the jobs table                                                         *)
onProgress_skipsRemoved(w, j, completed, total, hasResult, controlId, result, ref) ==
    LET w1 == [w EXCEPT !.jobs[j].processedControls = completed,
                        !.jobs[j].progress = RoundPercent(completed, total),
                        !.progressLog[j] =
                            Append(@, [completed |-> completed, total |-> total,
                                       hasResult |-> hasResult,
                                       controlId |-> controlId])]
    IN  IF hasResult /\ j \in activeJobs
        THEN [w1 EXCEPT !.objs = Put(@, ref, mappingResultOf(controlId, result.mappings,
                                                                  result.processingTime)),
                        !.mappingResults = Put(@, controlId, ref),
                        !.jobs[j].results = Put(@, controlId, ref),
                        !.resultsQueue = Append(@, [jobId |-> j, result |-> ref])]
        ELSE w1

(* The progress callback processControlsAsync passes to batchAnalyzeControls; *)
(* hasResult tells whether latestResult was passed                            *)
onProgress(w, j, completed, total, hasResult, controlId, result, ref) ==
    LET w1 == [w EXCEPT !.jobs[j].processedControls = completed,
                        !.jobs[j].progress = RoundPercent(completed, total),
                        !.progressLog[j] =
                            Append(@, [completed |-> completed, total |-> total,
                                       hasResult |-> hasResult,
                                       controlId |-> controlId])]
    IN  IF hasResult
        THEN [w1 EXCEPT !.objs = Put(@, ref, mappingResultOf(controlId, result.mappings,
                                                                  result.processingTime)),
                        !.mappingResults = Put(@, controlId, ref),
                        !.jobs[j].results = Put(@, controlId, ref),
                        !.resultsQueue = Append(@, [jobId |-> j, result |-> ref])]
        ELSE w1

(* The catch clause of processControlsAsync *)
jobFailed(w, j, message) ==
    [setStatus(w, j, "failed") EXCEPT !.jobs[j].error = message,
                                      !.jobs[j].ended = TRUE,
                                      !.run[j].pc = "done"]

(* Mutant: the job is marked completed without an end time *)
jobCompleted_noEndTime(w, j) ==
    [setStatus(w, j, "completed") EXCEPT !.jobs[j].progress = 100,
                                         !.run[j].pc = "done"]

(* batchAnalyzeControls returns and processControlsAsync marks the job *)
jobCompleted(w, j) ==
    [setStatus(w, j, "completed") EXCEPT !.jobs[j].ended = TRUE,
                                         !.jobs[j].progress = 100,
                                         !.run[j].pc = "done"]

(* Mutant: a failed item takes the entry of its control out of the mapping *)
(* state                                                                   *)
itemFailed_dropsEntry(w, j, completed, total, control) ==
    LET w1 == onProgress(w, j, completed, total, FALSE, control, Failed,
                         JobRef(j, completed))
    IN  [w1 EXCEPT !.mappingResults =
            [ id \in DOMAIN @ \ {control} |-> @[id] ]]

(* Mutant: a failed item is skipped without reporting progress *)
itemFailed_silent(w, j, completed, total, control) == w

(* The else branch of the results loop: progress is reported for a failed *)
(* item, without a latest result                                          *)
itemFailed(w, j, completed, total, control) ==
    onProgress(w, j, completed, total, FALSE, control, Failed, JobRef(j, completed))

(* The window of the batch that starts at index i (1-based) *)
WindowOf(i, n) == i .. Min(i + Concurrency - 1, n)

RECURSIVE processBatchResults(_, _, _)
(* The loop over batchResults from position k, up to its next suspension:    *)
(* the 50 ms delay after a succeeded item, the 200 ms delay before the next  *)
(* window, or the return                                                     *)
processBatchResults(w, j, k) ==
    LET r == w.run[j]
        n == Len(r.ismControls)
    IN  IF k \notin WindowOf(r.i, n)
        THEN IF r.i + Concurrency <= n
             THEN [w EXCEPT !.run[j].pc = "delay_batch"]
             ELSE jobCompleted(w, j)
        ELSE LET completed == r.completed + 1
                 control == r.ismControls[k]
                 w1 == [w EXCEPT !.run[j].completed = completed]
             IN  IF r.settled[k].success
                 THEN [onProgress([w1 EXCEPT !.run[j].results = @ \cup {control}],
                                  j, completed, n, TRUE, control,
                                  r.settled[k], JobRef(j, k))
                         EXCEPT !.run[j].pc = "delay_item", !.run[j].k = k + 1]
                 ELSE processBatchResults(itemFailed(w1, j, completed, n, control),
                                          j, k + 1)

(* Mutant: every remaining control is launched at once *)
launchWindow_wholeBatch(w, j, i) ==
    [w EXCEPT !.run[j].pc = "await_batch", !.run[j].i = i,
              !.run[j].pending = i .. Len(w.run[j].ismControls),
              !.run[j].settled = << >>]

(* The next window is launched: every item's analyzeControlMapping runs up to *)
(* its request                                                                *)
launchWindow(w, j, i) ==
    [w EXCEPT !.run[j].pc = "await_batch", !.run[j].i = i,
              !.run[j].pending = WindowOf(i, Len(w.run[j].ismControls)),
              !.run[j].settled = << >>]

Commit(w) ==
    /\ jobs' = w.jobs
    /\ run' = w.run
    /\ objs' = w.objs
    /\ mappingResults' = w.mappingResults
    /\ resultsQueue' = w.resultsQueue
    /\ statusLog' = w.statusLog
    /\ progressLog' = w.progressLog


initialize ==
    /\ aiService' = TRUE
    /\ resetPending' = FALSE
    /\ lastCall' = Internal
    /\ UNCHANGED <<catalogVars, jobs, activeJobs, run, objs, mappingResults,
                   resultsQueue, statusLog, progressLog, overrideCount,
                   delivered>>

ControlIdArgs ==
    { NoArg, Ids(<<>>), Ids(<<UnknownISMId>>),
      Ids(<<"ism-002", UnknownISMId, "ism-001">>), Ids(<<"ism-001">>) }
BatchArgs == { NoArg, Ids(<<"ism-001">>) }

(* Mutant: unresolved ids are kept in the batch *)
resolveControls_noFilter(ids, n) == ids

RECURSIVE resolveControls(_, _)
(* controlIds.map(id => getISMControlById(id)).filter(Boolean), from index n *)
resolveControls(ids, n) ==
    IF n > Len(ids) THEN <<>>
    ELSE IF getISMControlById(ids[n]) = Null THEN resolveControls(ids, n + 1)
         ELSE <<getISMControlById(ids[n])>> \o resolveControls(ids, n + 1)

selectControls(arg) ==
    IF arg.given THEN resolveControls(arg.ids, 1) ELSE ismControls

(* Mutant: the source-B list is not checked *)
startProcessingError_noNISTCheck(arg) ==
    IF ~aiService THEN ErrNotInitialized
    ELSE IF ~isReady THEN ErrNotReady
    ELSE IF Len(selectControls(arg)) = 0 THEN ErrNoISM
    ELSE Null

(* Mutant: the readiness of the catalog store is not checked *)
startProcessingError_noReadyCheck(arg) ==
    IF ~aiService THEN ErrNotInitialized
    ELSE IF Len(selectControls(arg)) = 0 THEN ErrNoISM
    ELSE IF Len(nistControls) = 0 THEN ErrNoNIST
    ELSE Null

(* The checks of startProcessing, in its order: the message thrown, or Null *)
startProcessingError(arg) ==
    IF ~aiService THEN ErrNotInitialized
    ELSE IF ~isReady THEN ErrNotReady
    ELSE IF Len(selectControls(arg)) = 0 THEN ErrNoISM
    ELSE IF Len(nistControls) = 0 THEN ErrNoNIST
    ELSE Null

(* Mutant: the id of a job that exists is given out again *)
generateJobId_reused ==
    IF DOMAIN jobs = {} THEN Cardinality(DOMAIN jobs) + 1
    ELSE CHOOSE j \in DOMAIN jobs : TRUE

generateJobId == Cardinality(DOMAIN jobs) + 1

newJob(jobId, total) ==
    [id |-> jobId, status |-> "queued", progress |-> 0, totalControls |-> total,
     processedControls |-> 0, error |-> Null, ended |-> FALSE, results |-> << >>]

(* Mutant: the orchestration is put off to a later tick, nothing of it runs *)
(* before startProcessing returns                                           *)
processControlsAsync_deferred(w, j) == w

(* Mutant: the status is left at queued while the batch runs *)
processControlsAsync_staysQueued(w, j) == launchWindow(w, j, 1)

(* processControlsAsync up to its first suspension: the first window's *)
(* requests are sent                                                   *)
processControlsAsync(w, j) ==
    LET w1 == setStatus(w, j, "processing")
    IN  IF ~aiService THEN jobFailed(w1, j, ErrNotAvailable)
        ELSE launchWindow(w1, j, 1)

(* Mutant: the job is created before the checks *)
rejectStart_registersJob(w) ==
    [w EXCEPT !.jobs = Put(@, Cardinality(DOMAIN w.jobs) + 1,
                           newJob(Cardinality(DOMAIN w.jobs) + 1, 0))]

(* What a rejected startProcessing leaves of the engine's state *)
rejectStart(w) == w

StartProcessing(arg) ==
    LET jobId == generateJobId
        ism == selectControls(arg)
        w0 == [World EXCEPT
                 !.jobs = Put(@, jobId, newJob(jobId, Len(ism))),
                 !.statusLog = Put(@, jobId, <<"queued">>),
                 !.progressLog = Put(@, jobId, << >>),
                 !.run = Put(@, jobId,
                             [pc |-> "start", ismControls |-> ism, i |-> 1,
                              pending |-> {}, settled |-> << >>, k |-> 1,
                              completed |-> 0, results |-> {}])]
    IN  /\ startProcessingError(arg) = Null
        /\ jobId \in JobIds
        /\ activeJobs' = activeJobs \cup {jobId}
        /\ Commit(processControlsAsync(w0, jobId))
        /\ lastCall' = Called("startProcessing", arg, Null, jobId)
        /\ UNCHANGED <<catalogVars, aiService, overrideCount, delivered,
                       resetPending>>

(* startProcessing throws one of its precondition errors *)
StartProcessingRejected(arg) ==
    /\ startProcessingError(arg) # Null
    /\ Commit(rejectStart(World))
    /\ lastCall' = Called("startProcessing", arg, startProcessingError(arg), NoJob)
    /\ UNCHANGED <<catalogVars, aiService, activeJobs, overrideCount, delivered,
                   resetPending>>

(* Mutant: no try/catch around the analysis, so a thrown analysis rejects *)
(* Promise.all and the orchestration fails the job                       *)
batchPromiseSettled_rethrows(w, j, idx, out) ==
    LET w1 == [w EXCEPT !.run[j].pending = @ \ {idx},
                        !.run[j].settled = Put(@, idx, out)]
    IN  IF ~out.success THEN jobFailed(w1, j, ErrAnalysis)
        ELSE IF w1.run[j].pending = {}
        THEN processBatchResults(w1, j, w.run[j].i)
        ELSE w1

(* A batch promise settles: its try/catch turns a thrown analysis into a    *)
(* failed batch result; when it is the window's last, Promise.all resolves  *)
(* and the results loop runs                                                *)
batchPromiseSettled(w, j, idx, out) ==
    LET w1 == [w EXCEPT !.run[j].pending = @ \ {idx},
                        !.run[j].settled = Put(@, idx, out)]
    IN  IF w1.run[j].pending = {}
        THEN processBatchResults(w1, j, w.run[j].i)
        ELSE w1

(* One analyzeControlMapping call of the window in flight resolves or throws *)
ItemSettled(j, idx, out) ==
    /\ j \in DOMAIN run
    /\ run[j].pc = "await_batch"
    /\ idx \in run[j].pending
    /\ Commit(batchPromiseSettled(World, j, idx, out))
    /\ lastCall' = Internal
    /\ UNCHANGED <<catalogVars, aiService, activeJobs, overrideCount, delivered,
                   resetPending>>

(* The 50 ms delay after a succeeded item elapses: the results loop goes on *)
ItemDelayElapsed(j) ==
    /\ j \in DOMAIN run
    /\ run[j].pc = "delay_item"
    /\ Commit(processBatchResults(World, j, run[j].k))
    /\ lastCall' = Internal
    /\ UNCHANGED <<catalogVars, aiService, activeJobs, overrideCount, delivered,
                   resetPending>>

(* The 200 ms delay between windows elapses: the next window is launched *)
BatchDelayElapsed(j) ==
    /\ j \in DOMAIN run
    /\ run[j].pc = "delay_batch"
    /\ Commit(launchWindow(World, j, run[j].i + Concurrency))
    /\ lastCall' = Internal
    /\ UNCHANGED <<catalogVars, aiService, activeJobs, overrideCount, delivered,
                   resetPending>>

----------------------------------------------------------------------------
(* MappingEngine: manual overrides *)

OverrideISMIds == { "ism-001" }
OverrideTargets == { "AC-1", "SC-7" }
OverrideConfidences == { 95, 40 }
OverrideReasoning == "Manual review confirms mapping"

(* Mutant: the correspondence is not flagged as a manual override *)
overrideMapping_unflagged(nistControlId, confidence, reasoning) ==
    [nistControlId |-> nistControlId,
     confidence |-> confidence,
     reasoning |-> reasoning,
     nistTitle |-> getNISTControlMetadata(nistControlId).title,
     nistDescription |-> getNISTControlMetadata(nistControlId).description,
     isManualOverride |-> FALSE]

overrideMapping(nistControlId, confidence, reasoning) ==
    [nistControlId |-> nistControlId,
     confidence |-> confidence,
     reasoning |-> reasoning,
     nistTitle |-> getNISTControlMetadata(nistControlId).title,
     nistDescription |-> getNISTControlMetadata(nistControlId).description,
     isManualOverride |-> TRUE]

(* Mutant: a correspondence the analysis wrote is kept beside the override, *)
(* only an earlier override is rewritten in place                           *)
overrideExisting_keepsOriginal(obj, nistControlId, confidence, reasoning) ==
    LET hits == { n \in 1 .. Len(obj.nistMappings) :
                    /\ obj.nistMappings[n].nistControlId = nistControlId
                    /\ obj.nistMappings[n].isManualOverride }
        first == CHOOSE n \in hits : \A m \in hits : n <= m
    IN  IF hits # {}
        THEN [obj EXCEPT !.nistMappings[first] =
                 overrideMapping(nistControlId, confidence, reasoning)]
        ELSE [obj EXCEPT !.nistMappings =
                 Append(@, overrideMapping(nistControlId, confidence, reasoning))]

(* Mutant: the override is pushed without looking for the target *)
overrideExisting_alwaysAppends(obj, nistControlId, confidence, reasoning) ==
    [obj EXCEPT !.nistMappings =
        Append(@, overrideMapping(nistControlId, confidence, reasoning))]

(* The update of an existing result: the first correspondence with the       *)
(* target id is rewritten in place, or a new one is pushed                   *)
overrideExisting(obj, nistControlId, confidence, reasoning) ==
    LET hits == { n \in 1 .. Len(obj.nistMappings) :
                    obj.nistMappings[n].nistControlId = nistControlId }
        first == CHOOSE n \in hits : \A m \in hits : n <= m
    IN  IF hits # {}
        THEN [obj EXCEPT !.nistMappings[first] =
                 overrideMapping(nistControlId, confidence, reasoning)]
        ELSE [obj EXCEPT !.nistMappings =
                 Append(@, overrideMapping(nistControlId, confidence, reasoning))]

(* The result applyManualOverride creates for an id that has no entry *)
newOverrideResult(ismControlId, nistControlId, confidence, reasoning) ==
    [ismControlId |-> ismControlId,
     nistMappings |-> << overrideMapping(nistControlId, confidence, reasoning) >>,
     aiModel |-> "manual-override",
     processingTime |-> 0]

(* Mutant: an override of an id the catalog store does not hold is ignored *)
overrideApplied_checksCatalog(o, mr, ismControlId, nistControlId, confidence, reasoning) ==
    IF getISMControlById(ismControlId) = Null
    THEN [objs |-> o, mappingResults |-> mr]
    ELSE IF ismControlId \notin DOMAIN mr
    THEN [objs |-> Put(o, OverrideRef(ismControlId),
                       newOverrideResult(ismControlId, nistControlId,
                                         confidence, reasoning)),
          mappingResults |-> Put(mr, ismControlId, OverrideRef(ismControlId))]
    ELSE [objs |-> [o EXCEPT ![mr[ismControlId]] =
                       overrideExisting(@, nistControlId, confidence, reasoning)],
          mappingResults |-> mr]

(* The objects and the mapping state after applyManualOverride *)
overrideApplied(o, mr, ismControlId, nistControlId, confidence, reasoning) ==
    IF ismControlId \notin DOMAIN mr
    THEN [objs |-> Put(o, OverrideRef(ismControlId),
                       newOverrideResult(ismControlId, nistControlId,
                                         confidence, reasoning)),
          mappingResults |-> Put(mr, ismControlId, OverrideRef(ismControlId))]
    ELSE [objs |-> [o EXCEPT ![mr[ismControlId]] =
                       overrideExisting(@, nistControlId, confidence, reasoning)],
          mappingResults |-> mr]

applyManualOverride(ismControlId, nistControlId, confidence, reasoning) ==
    /\ overrideCount < MaxOverrides
    /\ overrideCount' = overrideCount + 1
    /\ objs' = overrideApplied(objs, mappingResults, ismControlId, nistControlId,
                               confidence, reasoning).objs
    /\ mappingResults' = overrideApplied(objs, mappingResults, ismControlId,
                                         nistControlId, confidence,
                                         reasoning).mappingResults
    /\ lastCall' = Internal
    /\ UNCHANGED <<catalogVars, aiService, jobs, activeJobs, run, resultsQueue,
                   statusLog, progressLog, delivered, resetPending>>

RECURSIVE SelectIndices(_, _, _)
(* nistMappings.filter(keep), from index n *)
SelectIndices(s, keep, n) ==
    IF n > Len(s) THEN <<>>
    ELSE IF n \in keep THEN <<s[n]>> \o SelectIndices(s, keep, n + 1)
         ELSE SelectIndices(s, keep, n + 1)

(* Mutant: the override flag is not looked at *)
withoutOverride_anyFlag(nistMappings, nistControlId) ==
    SelectIndices(nistMappings,
                  { n \in 1 .. Len(nistMappings) :
                      nistMappings[n].nistControlId # nistControlId }, 1)

(* nistMappings.filter(m => !(m.nistControlId === nistControlId &&         *)
(* m.isManualOverride))                                                    *)
withoutOverride(nistMappings, nistControlId) ==
    SelectIndices(nistMappings,
                  { n \in 1 .. Len(nistMappings) :
                      ~(/\ nistMappings[n].nistControlId = nistControlId
                        /\ nistMappings[n].isManualOverride) }, 1)

removeManualOverride(ismControlId, nistControlId) ==
    /\ IF ismControlId \in DOMAIN mappingResults
       THEN objs' = [objs EXCEPT ![mappingResults[ismControlId]].nistMappings =
                       withoutOverride(@, nistControlId)]
       ELSE UNCHANGED objs
    /\ lastCall' = Internal
    /\ UNCHANGED <<catalogVars, aiService, jobs, activeJobs, run, mappingResults,
                   resultsQueue, statusLog, progressLog, overrideCount,
                   delivered, resetPending>>

----------------------------------------------------------------------------
(* MappingEngine: polling *)

(* The optional jobId argument of the polling calls: NoJob when it is absent. *)
(* An id of no job is a possible argument.                                    *)
PollArgs == { NoJob } \cup JobIds

(* resultsQueue.filter(item => item.jobId === jobId), or the whole queue *)
jobResults(queue, jobId) ==
    IF jobId # NoJob
    THEN SelectSeq(queue, LAMBDA item : item.jobId = jobId)
    ELSE queue

(* Mutant: the queue is cleared whatever the job id *)
remainingResults_clearsAll(queue, jobId) == << >>

(* resultsQueue.filter(item => item.jobId !== jobId), or the empty queue *)
remainingResults(queue, jobId) ==
    IF jobId # NoJob
    THEN SelectSeq(queue, LAMBDA item : item.jobId # jobId)
    ELSE << >>

(* Mutant: consuming the queue also clears the mapping state *)
consume_dropsEntries(w, jobId) ==
    [w EXCEPT !.resultsQueue = remainingResults(@, jobId),
              !.mappingResults = << >>]

(* What getNewResults writes *)
consume(w, jobId) == [w EXCEPT !.resultsQueue = remainingResults(@, jobId)]

getNewResults(jobId) ==
    /\ Commit(consume(World, jobId))
    /\ delivered' = delivered \cup SeqToSet(jobResults(resultsQueue, jobId))
    /\ lastCall' = Called("getNewResults", jobId, Null,
                          jobResults(resultsQueue, jobId))
    /\ UNCHANGED <<catalogVars, aiService, activeJobs, overrideCount,
                   resetPending>>

hasNewResults(jobId) ==
    /\ lastCall' = Called("hasNewResults", jobId, Null,
                          IF jobId # NoJob
                          THEN \E n \in 1 .. Len(resultsQueue) :
                                   resultsQueue[n].jobId = jobId
                          ELSE Len(resultsQueue) > 0)
    /\ UNCHANGED <<catalogVars, engineVars>>

(* this.activeJobs.get(jobId) || null: the job object itself *)
jobStatusOf(jobId) == IF jobId \in activeJobs THEN jobs[jobId] ELSE Null

getJobStatus(jobId) ==
    /\ lastCall' = Called("getJobStatus", jobId, Null, jobStatusOf(jobId))
    /\ UNCHANGED <<catalogVars, engineVars>>

----------------------------------------------------------------------------
(* MappingEngine: reads and reset *)

(* A correspondence as the reads return it: title and description are *)
(* looked up only when one of them is missing                         *)
enriched(mapping) ==
    IF mapping.nistTitle # "" /\ mapping.nistDescription # "" THEN mapping
    ELSE [mapping EXCEPT
            !.nistTitle = getNISTControlMetadata(mapping.nistControlId).title,
            !.nistDescription =
                getNISTControlMetadata(mapping.nistControlId).description]

enrichedResult(result) ==
    [result EXCEPT !.nistMappings =
                       [ n \in 1 .. Len(result.nistMappings) |->
                           enriched(result.nistMappings[n]) ]]

(* The values of the map; their order is not modelled *)
getAllMappingResults ==
    { enrichedResult(objs[mappingResults[id]]) : id \in DOMAIN mappingResults }

getMappingResult(ismControlId) ==
    IF ismControlId \notin DOMAIN mappingResults THEN Null
    ELSE enrichedResult(objs[mappingResults[ismControlId]])

getProcessingStats ==
    [totalJobs |-> Cardinality(activeJobs),
     activeJobs |-> Cardinality({ j \in activeJobs :
                                    jobs[j].status \in {"processing", "queued"} }),
     completedJobs |-> Cardinality({ j \in activeJobs : jobs[j].status = "completed" }),
     failedJobs |-> Cardinality({ j \in activeJobs : jobs[j].status = "failed" }),
     totalMappings |-> Cardinality(DOMAIN mappingResults)]

(* calculateProcessingMetadata: the loop over the entries and, inside it, *)
(* over each entry's correspondences                                     *)
HighConfidence == 70

RECURSIVE Sum(_)
Sum(s) == IF s = << >> THEN 0 ELSE Head(s) + Sum(Tail(s))

confidencesOf(result) ==
    [ n \in 1 .. Len(result.nistMappings) |-> result.nistMappings[n].confidence ]

RECURSIVE totalConfidence(_)
totalConfidence(ids) ==
    IF ids = {} THEN 0
    ELSE LET id == CHOOSE x \in ids : TRUE
         IN  Sum(confidencesOf(objs[mappingResults[id]])) + totalConfidence(ids \ {id})

(* Mutant: the entries are counted, not their correspondences *)
mappingCount_entries(ids) == Cardinality(ids)

RECURSIVE mappingCount(_)
mappingCount(ids) ==
    IF ids = {} THEN 0
    ELSE LET id == CHOOSE x \in ids : TRUE
         IN  Len(objs[mappingResults[id]].nistMappings) + mappingCount(ids \ {id})

RECURSIVE highConfidenceCount(_)
highConfidenceCount(ids) ==
    IF ids = {} THEN 0
    ELSE LET id == CHOOSE x \in ids : TRUE
             high == SelectSeq(confidencesOf(objs[mappingResults[id]]),
                               LAMBDA c : c >= HighConfidence)
         IN  Len(high) + highConfidenceCount(ids \ {id})

RECURSIVE totalProcessingTime(_)
totalProcessingTime(ids) ==
    IF ids = {} THEN 0
    ELSE LET id == CHOOSE x \in ids : TRUE
         IN  objs[mappingResults[id]].processingTime + totalProcessingTime(ids \ {id})

(* A quotient of two integers, kept as the fraction it is *)
Quotient(num, den) == [num |-> num, den |-> den]

(* Mutant: never below zero *)
unmappedControls_floored(totalControls, results) == Max(0, totalControls - results)

unmappedControls(totalControls, results) == totalControls - results

calculateProcessingMetadata ==
    LET results == DOMAIN mappingResults
        totalControls == Len(ismControls)
    IN  [totalISMControls |-> totalControls,
         processedControls |-> Cardinality(results),
         averageConfidence |->
             IF mappingCount(results) > 0
             THEN Quotient(totalConfidence(results), mappingCount(results))
             ELSE Quotient(0, 1),
         highConfidenceMappings |-> highConfidenceCount(results),
         unmappedControls |-> unmappedControls(totalControls, Cardinality(results)),
         totalProcessingTime |-> totalProcessingTime(results)]

(* Mutant: only the jobs table is cleared *)
reset_keepsEntries(mr) == mr

(* this.mappingResults.clear() *)
clearedEntries(mr) == << >>

(* Mutant: reset() also empties the results queue *)
reset_clearsQueue ==
    /\ activeJobs' = {}
    /\ mappingResults' = clearedEntries(mappingResults)
    /\ resultsQueue' = << >>
    /\ resetPending' = TRUE
    /\ lastCall' = Called("reset", NoJob, Null, Null)
    /\ UNCHANGED <<catalogVars, aiService, jobs, run, objs,
                   statusLog, progressLog, overrideCount, delivered>>

(* The two maps are cleared; the service, the queue and the objects the *)
(* jobs in flight hold are left as they are                             *)
reset ==
    /\ activeJobs' = {}
    /\ mappingResults' = clearedEntries(mappingResults)
    /\ resetPending' = TRUE
    /\ lastCall' = Called("reset", NoJob, Null, Null)
    /\ UNCHANGED <<catalogVars, aiService, jobs, run, objs, resultsQueue,
                   statusLog, progressLog, overrideCount, delivered>>

----------------------------------------------------------------------------
(* ReportService: summary statistics of a report's entries *)

Bands == << "Excellent (95-100%)", "Very Good (85-94%)", "Good (75-84%)",
            "Fair (65-74%)", "Poor (55-64%)", "Very Poor (<55%)" >>

(* Mutant: a confidence on a band's lower limit falls into the band below *)
confidenceBand_strict(confidence) ==
    IF confidence > 95 THEN Bands[1]
    ELSE IF confidence > 85 THEN Bands[2]
    ELSE IF confidence > 75 THEN Bands[3]
    ELSE IF confidence > 65 THEN Bands[4]
    ELSE IF confidence > 55 THEN Bands[5]
    ELSE Bands[6]

(* The if-else chain of the loop *)
confidenceBand(confidence) ==
    IF confidence >= 95 THEN Bands[1]
    ELSE IF confidence >= 85 THEN Bands[2]
    ELSE IF confidence >= 75 THEN Bands[3]
    ELSE IF confidence >= 65 THEN Bands[4]
    ELSE IF confidence >= 55 THEN Bands[5]
    ELSE Bands[6]

(* All nistMappings of the entries, in the order of the two loops *)
RECURSIVE nistMappingsOf(_)
nistMappingsOf(mappings) ==
    IF mappings = << >> THEN << >>
    ELSE Head(mappings).nistMappings \o nistMappingsOf(Tail(mappings))

processingTimesOf(mappings) ==
    [ n \in 1 .. Len(mappings) |-> mappings[n].processingTime ]

(* The distribution by family is left out: the catalogs of the model carry *)
(* no family                                                               *)
generateSummaryStats(mappings) ==
    LET all == nistMappingsOf(mappings)
    IN  [totalISMControls |-> Len(mappings),
         totalMappings |-> Len(all),
         confidenceDistribution |->
             [ band \in SeqToSet(Bands) |->
                 Len(SelectSeq(all, LAMBDA m : confidenceBand(m.confidence) = band)) ],
         manualOverrides |-> Len(SelectSeq(all, LAMBDA m : m.isManualOverride)),
         averageProcessingTime |->
             IF Len(all) > 0
             THEN Quotient(Sum(processingTimesOf(mappings)), Len(mappings))
             ELSE Quotient(0, 1)]

(* The reports the statistics are computed of: the entry of one control as *)
(* an analysis wrote it, an override appended or not, and the entry an     *)
(* override created for another control or none                            *)
ReportConfidences == { 0, 54, 55, 64, 65, 74, 75, 84, 85, 94, 95, 100 }
ReportCandidates ==
    { [nistControlId |-> "AC-1", confidence |-> c, reasoning |-> Reasoning] :
        c \in ReportConfidences }
AnalysisEntries ==
    { mappingResultOf("ism-001", m, t) :
        m \in UNION { [1 .. n -> ReportCandidates] : n \in 0 .. MaxMappings },
        t \in ProcessingTimes }
FirstEntries ==
    AnalysisEntries
    \cup { overrideExisting(e, "SC-7", c, OverrideReasoning) :
             e \in AnalysisEntries, c \in OverrideConfidences }
ReportInputs ==
    { << >> }
    \cup { <<e>> : e \in FirstEntries }
    \cup { <<e, newOverrideResult("ism-002", "AC-1", c, OverrideReasoning)>> :
             e \in FirstEntries, c \in OverrideConfidences }

(* ReportService.generateSummaryStats applied to the report at hand *)
GenerateSummaryStats ==
    /\ lastCall.op = "reportData"
    /\ lastCall' = Called("generateSummaryStats", lastCall.arg, Null,
                          generateSummaryStats(lastCall.arg))
    /\ UNCHANGED <<catalogVars, engineVars>>

----------------------------------------------------------------------------
(* The system *)

Constructed ==
    /\ ismControls = << >>
    /\ nistControls = << >>
    /\ loadingStatus = [isLoading |-> FALSE, ismControlsLoaded |-> FALSE,
                        nistControlsLoaded |-> FALSE, ismControlCount |-> 0,
                        nistControlCount |-> 0, error |-> Null]
    /\ loadPc = NoLoad
    /\ aiService = FALSE
    /\ jobs = << >>
    /\ activeJobs = {}
    /\ run = << >>
    /\ objs = << >>
    /\ mappingResults = << >>
    /\ resultsQueue = << >>
    /\ statusLog = << >>
    /\ progressLog = << >>
    /\ overrideCount = 0
    /\ delivered = {}
    /\ resetPending = FALSE

Init ==
    /\ Constructed
    /\ lastCall = Internal

(* OllamaService.parseResponse applied to the response text at hand *)
ParseResponse ==
    /\ lastCall.op = "response"
    /\ lastCall' = Called("parseResponse", lastCall.arg, Null,
                          parseResponse(lastCall.arg))
    /\ UNCHANGED <<catalogVars, engineVars>>

MaxWindowIndex == Len(ISMCatalog)

(* The steps of the jobs in flight, the model answering from `responses` *)
JobStep(responses) ==
    \/ \E j \in JobIds, idx \in 1 .. MaxWindowIndex, out \in OutcomesOf(responses) :
          ItemSettled(j, idx, out)
    \/ \E j \in JobIds : ItemDelayElapsed(j)
    \/ \E j \in JobIds : BatchDelayElapsed(j)

(* The catalogs are loaded before processing is started: loadAllControls is *)
(* not called again once a job exists                                       *)
Setup ==
    \/ (DOMAIN jobs = {} /\ LoadAllControls)
    \/ LoadISMResolved(ISMCatalog)
    \/ LoadISMRejected
    \/ LoadNISTResolved(NISTCatalog)
    \/ LoadNISTRejected
    \/ initialize

Override ==
    \/ \E id \in OverrideISMIds, t \in OverrideTargets, c \in OverrideConfidences :
          applyManualOverride(id, t, c, OverrideReasoning)
    \/ \E id \in OverrideISMIds, t \in OverrideTargets : removeManualOverride(id, t)

(* Jobs over the whole catalog or a subset of it, overlapping freely *)
Next ==
    \/ Setup
    \/ \E arg \in BatchArgs : StartProcessing(arg)
    \/ JobStep({RespOne})

Spec == Init /\ [][Next]_vars

NoJobInFlight == \A j \in DOMAIN run : run[j].pc = "done"

(* Manual overrides at any moment of jobs over one control that are run one *)
(* after the other                                                          *)
NextOverride ==
    \/ Setup
    \/ (NoJobInFlight /\ StartProcessing(Ids(<<"ism-001">>)))
    \/ \E j \in JobIds, out \in OutcomesOf(Responses) : ItemSettled(j, 1, out)
    \/ \E j \in JobIds : ItemDelayElapsed(j)
    \/ Override

SpecOverride == Init /\ [][NextOverride]_vars

(* Every call of loadAllControls and startProcessing, admitted or rejected, *)
(* at any moment, except that a job is started only when none is in flight  *)
NextCalls ==
    \/ LoadAllControls
    \/ LoadAllControlsRejected
    \/ LoadISMResolved(ISMCatalog)
    \/ LoadISMRejected
    \/ LoadNISTResolved(NISTCatalog)
    \/ LoadNISTRejected
    \/ initialize
    \/ \E arg \in ControlIdArgs : (NoJobInFlight /\ StartProcessing(arg))
    \/ \E arg \in ControlIdArgs : StartProcessingRejected(arg)
    \/ JobStep({RespOne})

SpecCalls == Init /\ [][NextCalls]_vars

(* Polling at any moment of at most two jobs that overlap freely, the *)
(* catalogs loaded once                                               *)
NextPoll ==
    \/ (~isReady /\ LoadAllControls)
    \/ LoadISMResolved(ISMCatalog)
    \/ LoadNISTResolved(NISTCatalog)
    \/ (~aiService /\ initialize)
    \/ \E arg \in BatchArgs : (DOMAIN jobs \subseteq {1} /\ StartProcessing(arg))
    \/ JobStep({RespOne})
    \/ \E jobId \in PollArgs : getNewResults(jobId)
    \/ \E jobId \in PollArgs : hasNewResults(jobId)
    \/ \E jobId \in JobIds : getJobStatus(jobId)

SpecPoll == Init /\ [][NextPoll]_vars

(* Overrides of any entry at any moment of one job over the whole catalog *)
NextEntries ==
    \/ (~isReady /\ LoadAllControls)
    \/ LoadISMResolved(ISMCatalog)
    \/ LoadNISTResolved(NISTCatalog)
    \/ (~aiService /\ initialize)
    \/ (DOMAIN jobs = {} /\ StartProcessing(NoArg))
    \/ JobStep(Responses)
    \/ \E id \in CatalogISMIds, t \in OverrideTargets, c \in OverrideConfidences :
          applyManualOverride(id, t, c, OverrideReasoning)
    \/ \E id \in CatalogISMIds, t \in OverrideTargets : removeManualOverride(id, t)

SpecEntries == Init /\ [][NextEntries]_vars

(* reset() at any moment of jobs over one control that are run one after *)
(* the other, with overrides, and startProcessing called again after it  *)
NextReset ==
    \/ (~isReady /\ LoadAllControls)
    \/ LoadISMResolved(ISMCatalog)
    \/ LoadNISTResolved(NISTCatalog)
    \/ initialize
    \/ (NoJobInFlight /\ StartProcessing(Ids(<<"ism-001">>)))
    \/ StartProcessingRejected(Ids(<<"ism-001">>))
    \/ \E j \in JobIds, out \in OutcomesOf({RespOne}) : ItemSettled(j, 1, out)
    \/ \E j \in JobIds : ItemDelayElapsed(j)
    \/ \E id \in OverrideISMIds, t \in OverrideTargets, c \in OverrideConfidences :
          applyManualOverride(id, t, c, OverrideReasoning)
    \/ reset

SpecReset == Init /\ [][NextReset]_vars

(* reset() and polling at any moment of at most two jobs over the whole *)
(* catalog that overlap freely                                          *)
NextInFlight ==
    \/ (~isReady /\ LoadAllControls)
    \/ LoadISMResolved(ISMCatalog)
    \/ LoadNISTResolved(NISTCatalog)
    \/ (~aiService /\ initialize)
    \/ (DOMAIN jobs \subseteq {1} /\ StartProcessing(NoArg))
    \/ JobStep({RespOne})
    \/ reset
    \/ getNewResults(NoJob)
    \/ \E jobId \in JobIds : getJobStatus(jobId)

SpecInFlight == Init /\ [][NextInFlight]_vars

(* startProcessing with any argument after loads that may return an empty *)
(* list for either source, the catalogs loaded again at any moment but    *)
(* that of the one job's run                                              *)
NextEmpty ==
    \/ (LoadsInFlight = 0 /\ NoJobInFlight /\ LoadAllControls)
    \/ \E cat \in ISMCatalogs : LoadISMResolved(cat)
    \/ \E cat \in NISTCatalogs : LoadNISTResolved(cat)
    \/ (~aiService /\ initialize)
    \/ \E arg \in ControlIdArgs : (DOMAIN jobs = {} /\ StartProcessing(arg))
    \/ \E arg \in ControlIdArgs : StartProcessingRejected(arg)
    \/ JobStep({RespOne})

SpecEmpty == Init /\ [][NextEmpty]_vars

(* The catalog store on its own: loads that resolve or fail, calls of *)
(* loadAllControls at any moment, and reset() at any moment           *)
NextLoad ==
    \/ LoadAllControls
    \/ LoadAllControlsRejected
    \/ \E cat \in ISMCatalogs : LoadISMResolved(cat)
    \/ LoadISMRejected
    \/ \E cat \in NISTCatalogs : LoadNISTResolved(cat)
    \/ LoadNISTRejected
    \/ ControlServiceReset

SpecLoad == Init /\ [][NextLoad]_vars

(* The engine beside a catalog store that is reloaded and reset: loads one *)
(* after the other returning either revision, one job over the whole       *)
(* catalog, overrides of an id no catalog holds at any moment              *)
NextCatalog ==
    \/ (LoadsInFlight = 0 /\ LoadAllControls)
    \/ \E cat \in { ISMCatalog, ISMCatalogShort } : LoadISMResolved(cat)
    \/ \E cat \in { NISTCatalog, NISTCatalogRevised } : LoadNISTResolved(cat)
    \/ ControlServiceReset
    \/ (~aiService /\ initialize)
    \/ (DOMAIN jobs = {} /\ StartProcessing(NoArg))
    \/ JobStep({RespOne})
    \/ \E c \in OverrideConfidences :
          applyManualOverride(UnknownISMId, "SC-7", c, OverrideReasoning)

SpecCatalog == Init /\ [][NextCatalog]_vars

(* Two jobs over the whole catalog that overlap freely, reset() at any     *)
(* moment.                                                                 *)
(* Every request a job has sent returns or fails (the per-call timeout)    *)
(* and every timer a job waits for fires.                                  *)
NextLive ==
    \/ (~isReady /\ LoadAllControls)
    \/ LoadISMResolved(ISMCatalog)
    \/ LoadNISTResolved(NISTCatalog)
    \/ (~aiService /\ initialize)
    \/ (DOMAIN jobs \subseteq {1} /\ StartProcessing(NoArg))
    \/ JobStep({RespOne})
    \/ reset

Fairness ==
    \A j \in JobIds :
        /\ WF_vars(\E idx \in 1 .. MaxWindowIndex, out \in OutcomesOf({RespOne}) :
                      ItemSettled(j, idx, out))
        /\ WF_vars(ItemDelayElapsed(j))
        /\ WF_vars(BatchDelayElapsed(j))

SpecLive == Init /\ [][NextLive]_vars /\ Fairness

(* The summary statistics on their own, given any of the reports *)
InitReport ==
    /\ Constructed
    /\ \E mappings \in ReportInputs :
          lastCall = Called("reportData", mappings, Null, Null)

NextReport == GenerateSummaryStats

SpecReport == InitReport /\ [][NextReport]_vars

(* The parser on its own, given any of the response texts *)
InitParse ==
    /\ Constructed
    /\ \E content \in ParseInputs : lastCall = Called("response", content, Null, Null)

NextParse == ParseResponse

SpecParse == InitParse /\ [][NextParse]_vars

----------------------------------------------------------------------------
(* Properties of the jobs *)

Reported(j) == 1 .. Len(progressLog[j])
FailedItems(j) == { n \in Reported(j) : ~progressLog[j][n].hasResult }
SucceededItems(j) == { n \in Reported(j) : progressLog[j][n].hasResult }

(* No MappingResult object of job j's n-th item exists anywhere *)
NoEntryOf(j, n) ==
    /\ JobRef(j, n) \notin DOMAIN objs
    /\ \A id \in DOMAIN mappingResults : mappingResults[id] # JobRef(j, n)
    /\ \A id \in DOMAIN jobs[j].results : jobs[j].results[id] # JobRef(j, n)

NoQueueItemOf(j, n) ==
    \A q \in 1 .. Len(resultsQueue) :
        ~(resultsQueue[q].jobId = j /\ resultsQueue[q].result = JobRef(j, n))

(* C1 Batch completeness: a job over N resolvable controls whose status is  *)
(* completed has processedControls = totalControls = N, every item has been *)
(* reported, whatever items failed, and a failed item has contributed no    *)
(* MappingResult.                                                           *)
C1_BatchCompleteness ==
    \A j \in DOMAIN jobs :
        jobs[j].status = "completed" =>
            /\ jobs[j].totalControls = Len(run[j].ismControls)
            /\ jobs[j].processedControls = jobs[j].totalControls
            /\ Len(progressLog[j]) = jobs[j].totalControls
            /\ \A n \in FailedItems(j) : NoEntryOf(j, n)

C1_Witness ==
    \E j \in DOMAIN jobs :
        /\ jobs[j].status = "completed"
        /\ jobs[j].totalControls = 2
        /\ jobs[j].processedControls = 2
        /\ 1 \in SucceededItems(j)
        /\ 2 \in FailedItems(j)

(* C3 A failed item does not abort the job: the counter advances by one for *)
(* it, no MappingResult and no queue item of it is written, the job is      *)
(* never failed, and a job that has ended is completed with every control   *)
(* of its batch attempted and reported.                                     *)
C3_ItemFailureDoesNotAbort ==
    \A j \in DOMAIN jobs :
        /\ \A n \in FailedItems(j) :
              /\ progressLog[j][n].completed = n
              /\ jobs[j].processedControls >= n
              /\ NoEntryOf(j, n)
              /\ NoQueueItemOf(j, n)
              /\ jobs[j].status \in {"processing", "completed"}
        /\ run[j].pc = "done" =>
              /\ jobs[j].status = "completed"
              /\ Len(progressLog[j]) = Len(run[j].ismControls)

C3_Witness ==
    \E j \in DOMAIN jobs :
        /\ run[j].pc = "done"
        /\ jobs[j].status = "completed"
        /\ 1 \in FailedItems(j)
        /\ 2 \in SucceededItems(j)
        /\ JobRef(j, 2) \in DOMAIN objs

IsPrefix(s, t) == Len(s) <= Len(t) /\ \A n \in 1 .. Len(s) : s[n] = t[n]

(* C4 Job lifecycle: the values assigned to a job's status are, in order,   *)
(* queued, processing and then completed or failed, and nothing after      *)
(* those; failed comes only from the orchestration's own throw, before any  *)
(* item, never from failed items.                                           *)
C4_JobLifecycle ==
    \A j \in DOMAIN jobs :
        /\ Len(statusLog[j]) >= 1
        /\ jobs[j].status = statusLog[j][Len(statusLog[j])]
        /\ \/ IsPrefix(statusLog[j], <<"queued", "processing", "completed">>)
           \/ IsPrefix(statusLog[j], <<"queued", "processing", "failed">>)
        /\ jobs[j].status = "failed" =>
              /\ jobs[j].error = ErrNotAvailable
              /\ progressLog[j] = << >>
        /\ FailedItems(j) # {} => jobs[j].status # "failed"

C4_Witness ==
    \E j \in DOMAIN jobs :
        /\ statusLog[j] = <<"queued", "processing", "completed">>
        /\ jobs[j].totalControls = 2
        /\ FailedItems(j) = {1, 2}

(* C5 Window ordering: at most Concurrency analyses of a job are in flight, *)
(* and an item is in flight only when every item of the earlier windows has *)
(* settled and been reported.                                               *)
C5_WindowOrdering ==
    \A j \in DOMAIN run :
        /\ Cardinality(run[j].pending) <= Concurrency
        /\ \A idx \in run[j].pending :
              /\ Len(progressLog[j]) >= ((idx - 1) \div Concurrency) * Concurrency
              /\ idx > Len(progressLog[j])

C5_Witness ==
    \E j \in DOMAIN run :
        /\ run[j].pending = {2}
        /\ Len(progressLog[j]) = 1
        /\ run[j].pc = "await_batch"

(* C6 Progress consistency: 0 <= processedControls <= totalControls and     *)
(* 0 <= progress <= 100 in every state, and no step decreases a job's       *)
(* processedControls or progress.                                           *)
C6_Bounds ==
    \A j \in DOMAIN jobs :
        /\ 0 <= jobs[j].processedControls
        /\ jobs[j].processedControls <= jobs[j].totalControls
        /\ 0 <= jobs[j].progress
        /\ jobs[j].progress <= 100

C6_Monotone ==
    \A j \in DOMAIN jobs :
        /\ j \in DOMAIN jobs'
        /\ jobs'[j].processedControls >= jobs[j].processedControls
        /\ jobs'[j].progress >= jobs[j].progress

C6_ProgressConsistency == []C6_Bounds /\ [][C6_Monotone]_vars

C6_Witness ==
    \E j \in DOMAIN jobs :
        /\ jobs[j].totalControls = 2
        /\ jobs[j].processedControls = 1
        /\ jobs[j].progress = 50
        /\ jobs[j].status = "processing"

(* C2 At most one correspondence per target: no entry of the mapping state *)
(* holds two correspondences with the same target identifier.              *)
C2_AtMostOnePerTarget ==
    \A id \in DOMAIN mappingResults :
        LET m == objs[mappingResults[id]].nistMappings
        IN  \A a, b \in 1 .. Len(m) :
                m[a].nistControlId = m[b].nistControlId => a = b

----------------------------------------------------------------------------
(* Properties of the calls *)

StartCalled == lastCall'.op = "startProcessing"

(* C7 Start preconditions: startProcessing throws the not-initialized error *)
(* when no service has been set (checked first), the not-ready error when   *)
(* a service is set and isReady() is false, and returns a job id only when  *)
(* both preconditions hold.                                                 *)
C7_Step ==
    StartCalled =>
        /\ ~aiService => lastCall'.error = ErrNotInitialized /\ lastCall'.ret = NoJob
        /\ aiService /\ ~isReady =>
              lastCall'.error = ErrNotReady /\ lastCall'.ret = NoJob
        /\ lastCall'.ret # NoJob =>
              aiService /\ isReady /\ lastCall'.error = Null

C7_StartPreconditions == [][C7_Step]_vars

C7_Witness ==
    /\ lastCall.op = "startProcessing"
    /\ lastCall.error = ErrNotReady
    /\ aiService
    /\ loadingStatus.ismControlsLoaded
    /\ ~loadingStatus.nistControlsLoaded

(* C8 A precondition error leaves the prior state: a startProcessing that   *)
(* throws adds no job and leaves the mapping state, the result objects and  *)
(* the results queue as they were; a loadAllControls that throws the        *)
(* already-loading error leaves the guard, the flags, the counts and the    *)
(* lists as they were.                                                      *)
C8_Step ==
    /\ StartCalled /\ lastCall'.error # Null =>
          UNCHANGED <<jobs, activeJobs, run, objs, mappingResults, resultsQueue,
                      statusLog, progressLog, catalogVars, aiService>>
    /\ lastCall'.op = "loadAllControls" /\ lastCall'.error = ErrAlreadyLoading =>
          /\ loadingStatus.isLoading
          /\ UNCHANGED <<loadingStatus, ismControls, nistControls, loadPc>>

C8_PreconditionErrorFrame == [][C8_Step]_vars

C8_Witness ==
    /\ lastCall.op = "startProcessing"
    /\ lastCall.error = ErrNoISM
    /\ DOMAIN jobs # {}
    /\ DOMAIN mappingResults # {}
    /\ resultsQueue # << >>

(* The number of the supplied ids that resolve in the catalog store *)
Resolving(ids) ==
    Cardinality({ n \in 1 .. Len(ids) : ids[n] \in SeqToSet(ismControls) })

(* C9 Subset selection: for a supplied list, the ids that do not resolve    *)
(* are dropped without error, totalControls is the number of supplied ids   *)
(* that resolve, and when none resolves (and both preconditions hold) the   *)
(* call throws the empty-batch error.                                       *)
C9_SubsetSelection ==
    lastCall.op = "startProcessing" /\ lastCall.arg.given =>
        LET n == Resolving(lastCall.arg.ids)
        IN  /\ lastCall.ret # NoJob =>
                  /\ jobs[lastCall.ret].totalControls = n
                  /\ n > 0
                  /\ Len(run[lastCall.ret].ismControls) = n
                  /\ SeqToSet(run[lastCall.ret].ismControls) \subseteq
                         SeqToSet(ismControls) \cap SeqToSet(lastCall.arg.ids)
            /\ n = 0 /\ aiService /\ isReady => lastCall.error = ErrNoISM
            /\ n > 0 /\ aiService /\ isReady /\ Len(nistControls) > 0 =>
                  lastCall.error = Null /\ lastCall.ret # NoJob
            /\ lastCall.error = ErrNoISM => n = 0

C9_Witness ==
    /\ lastCall.op = "startProcessing"
    /\ lastCall.arg = Ids(<<"ism-002", UnknownISMId, "ism-001">>)
    /\ lastCall.ret # NoJob
    /\ jobs[lastCall.ret].totalControls = 2
    /\ run[lastCall.ret].ismControls = <<"ism-002", "ism-001">>

----------------------------------------------------------------------------
(* Properties of the items *)

ItemsReported(j) == Len(progressLog'[j]) - Len(progressLog[j])

(* C10 as stated: every item that settles, succeeded or failed, pushes a   *)
(* ResultsQueueItem onto the results queue.                                *)
C10_Original_Step ==
    \A j \in DOMAIN progressLog :
        ItemsReported(j) > 0 =>
            Len(resultsQueue') = Len(resultsQueue) + ItemsReported(j)

C10_Original == [][C10_Original_Step]_vars

(* C10 amended: an item that settles is reported by exactly one invocation *)
(* of the callback with (processed, total), the counter one more than      *)
(* before and percent-complete recomputed from it; a MappingResult is      *)
(* upserted and a ResultsQueueItem holding it is pushed if and only if the *)
(* item succeeded.                                                         *)
C10_Step ==
    \A j \in DOMAIN progressLog :
        /\ ItemsReported(j) \in {0, 1}
        /\ ItemsReported(j) = 0 =>
              jobs'[j].processedControls = jobs[j].processedControls
        /\ ItemsReported(j) = 1 =>
              LET e == progressLog'[j][Len(progressLog'[j])]
                  ref == JobRef(j, e.completed)
              IN  /\ e.completed = jobs[j].processedControls + 1
                  /\ e.total = jobs[j].totalControls
                  /\ jobs'[j].processedControls = e.completed
                  /\ jobs'[j].progress = RoundPercent(e.completed, e.total)
                  /\ e.hasResult =>
                        /\ resultsQueue' =
                               Append(resultsQueue, [jobId |-> j, result |-> ref])
                        /\ ref \notin DOMAIN objs
                        /\ ref \in DOMAIN objs'
                        /\ objs'[ref].ismControlId = e.controlId
                        /\ mappingResults' = Put(mappingResults, e.controlId, ref)
                        /\ jobs'[j].results = Put(jobs[j].results, e.controlId, ref)
                  /\ ~e.hasResult =>
                        /\ resultsQueue' = resultsQueue
                        /\ objs' = objs
                        /\ mappingResults' = mappingResults
                        /\ jobs'[j].results = jobs[j].results

C10_PerItemEffects == [][C10_Step]_vars

C10_Witness ==
    \E j \in DOMAIN jobs :
        /\ FailedItems(j) = {1}
        /\ SucceededItems(j) = {2}
        /\ jobs[j].processedControls = 2
        /\ resultsQueue = << [jobId |-> j, result |-> JobRef(j, 2)] >>
        /\ mappingResults = << >> @@ ("ism-002" :> JobRef(j, 2))

----------------------------------------------------------------------------
(* Properties of polling *)

PositionIn(q, item) == CHOOSE n \in 1 .. Len(q) : q[n] = item

(* r holds, in the order of q, exactly the items of q that are in `wanted` *)
IsSelection(r, q, wanted) ==
    /\ SeqToSet(r) = SeqToSet(q) \cap wanted
    /\ Len(r) = Cardinality(SeqToSet(r))
    /\ \A m, n \in 1 .. Len(r) :
          m < n => PositionIn(q, r[m]) < PositionIn(q, r[n])

ItemsOfJob(q, jobId) == { q[n] : n \in { m \in 1 .. Len(q) : q[m].jobId = jobId } }

C11_Queue ==
    /\ Len(resultsQueue) = Cardinality(SeqToSet(resultsQueue))
    /\ SeqToSet(resultsQueue) \cap delivered = {}

C11_Step ==
    lastCall'.op = "getNewResults" =>
        LET jobId == lastCall'.arg
            returned == lastCall'.ret
            mine == IF jobId = NoJob THEN SeqToSet(resultsQueue)
                    ELSE ItemsOfJob(resultsQueue, jobId)
        IN  /\ IsSelection(returned, resultsQueue, mine)
            /\ IsSelection(resultsQueue', resultsQueue,
                           SeqToSet(resultsQueue) \ mine)
            /\ jobId = NoJob => returned = resultsQueue /\ resultsQueue' = << >>
            /\ SeqToSet(returned) \cap delivered = {}
            /\ delivered' = delivered \cup SeqToSet(returned)

(* C11 Results queue consumption: getNewResults(jobId) returns exactly the  *)
(* queued items of that job in the order they were pushed, removes them and *)
(* leaves the other jobs' items in their order; getNewResults() returns and *)
(* removes all items; no item is returned that an earlier poll returned.    *)
C11_QueueConsumption == []C11_Queue /\ [][C11_Step]_vars

C11_Witness ==
    /\ lastCall.op = "getNewResults"
    /\ lastCall.arg = 2
    /\ Len(lastCall.ret) = 2
    /\ \E n \in 1 .. Len(resultsQueue) : resultsQueue[n].jobId = 1
    /\ \E item \in delivered : item.jobId = 1

PollOps == { "getJobStatus", "hasNewResults", "getNewResults" }

C12_Step ==
    lastCall'.op \in PollOps =>
        /\ UNCHANGED <<jobs, activeJobs, run, objs, mappingResults, statusLog,
                       progressLog, catalogVars, aiService>>
        /\ lastCall'.op # "getNewResults" => UNCHANGED resultsQueue

(* The state a job that has ended is in, as its items' outcomes alone fix it *)
C12_Final ==
    \A j \in DOMAIN jobs :
        run[j].pc = "done" =>
            /\ jobs[j].status = "completed"
            /\ jobs[j].processedControls = jobs[j].totalControls
            /\ jobs[j].progress = 100
            /\ DOMAIN jobs[j].results =
                   { progressLog[j][n].controlId : n \in SucceededItems(j) }
            /\ \A n \in SucceededItems(j) :
                  /\ jobs[j].results[progressLog[j][n].controlId] = JobRef(j, n)
                  /\ \E t \in ProcessingTimes :
                         objs[JobRef(j, n)] =
                             mappingResultOf(progressLog[j][n].controlId,
                                             parseResponse(RespOne), t)

C12_Entries ==
    /\ DOMAIN mappingResults =
           { id \in CatalogISMIds :
                 \E j \in DOMAIN jobs : \E n \in SucceededItems(j) :
                     progressLog[j][n].controlId = id }
    /\ \A id \in DOMAIN mappingResults :
          \E j \in DOMAIN jobs : \E n \in SucceededItems(j) :
              /\ progressLog[j][n].controlId = id
              /\ mappingResults[id] = JobRef(j, n)

(* C12 Polling does not affect the run: getJobStatus, hasNewResults and     *)
(* getNewResults change no job's status or counters and nothing of the      *)
(* mapping state, and with polls at any moment a job still ends in the      *)
(* state its items' outcomes fix.                                           *)
C12_PollingIsReadOnly == []C12_Final /\ []C12_Entries /\ [][C12_Step]_vars

C12_Witness ==
    /\ lastCall.op = "getJobStatus"
    /\ lastCall.arg = 1
    /\ lastCall.arg \in activeJobs
    /\ lastCall.ret.status = "processing"
    /\ lastCall.ret.processedControls = 1
    /\ [jobId |-> 1, result |-> JobRef(1, 1)] \in delivered
    /\ run[1].pc # "done"

----------------------------------------------------------------------------
(* Properties of the overrides *)

TargetCount(nistMappings, nistControlId) ==
    Cardinality({ n \in 1 .. Len(nistMappings) :
                    nistMappings[n].nistControlId = nistControlId })

(* The step is applyManualOverride(id, t, c, OverrideReasoning) *)
Applies(id, t, c) == applyManualOverride(id, t, c, OverrideReasoning)

(* After the call, the same call again changes nothing *)
SecondCallChangesNothing(id, t, c) ==
    overrideApplied(objs', mappingResults', id, t, c, OverrideReasoning) =
        [objs |-> objs', mappingResults |-> mappingResults']

C13_Same ==
    \A id \in CatalogISMIds, t \in OverrideTargets, c \in OverrideConfidences :
        Applies(id, t, c) => SecondCallChangesNothing(id, t, c)

C13_Step ==
    \A id \in CatalogISMIds, t \in OverrideTargets, c \in OverrideConfidences :
        Applies(id, t, c) =>
            /\ TargetCount(objs'[mappingResults'[id]].nistMappings, t) = 1
            /\ SecondCallChangesNothing(id, t, c)

(* C13 Idempotent override: after applyManualOverride the entry holds       *)
(* exactly one correspondence for the target id, and the same call again    *)
(* leaves the mapping state as the first call left it.                      *)
C13_IdempotentOverride == [][C13_Step]_vars

(* The part of C13 that holds: the second call changes nothing *)
C13_SecondCallIsNoOp == [][C13_Same]_vars

(* The correspondence is the override of target t with confidence c *)
IsOverrideOf(m, t, c) ==
    /\ m.nistControlId = t
    /\ m.confidence = c
    /\ m.reasoning = OverrideReasoning
    /\ m.isManualOverride

C14_Step ==
    \A id \in CatalogISMIds, t \in OverrideTargets, c \in OverrideConfidences :
        Applies(id, t, c) /\ id \notin DOMAIN mappingResults =>
            /\ DOMAIN mappingResults' = DOMAIN mappingResults \cup {id}
            /\ LET e == objs'[mappingResults'[id]]
               IN  /\ e.ismControlId = id
                   /\ Len(e.nistMappings) = 1
                   /\ IsOverrideOf(e.nistMappings[1], t, c)
                   /\ e.aiModel = "manual-override"
                   /\ e.processingTime = 0
            /\ \A other \in DOMAIN mappingResults :
                  /\ mappingResults'[other] = mappingResults[other]
                  /\ objs'[mappingResults[other]] = objs[mappingResults[other]]
            /\ \A ref \in DOMAIN objs : objs'[ref] = objs[ref]

(* C14 applyManualOverride on an id without an entry creates an entry with  *)
(* exactly one correspondence, holding the given target, confidence and     *)
(* justification and flagged as an override, with model identifier          *)
(* 'manual-override' and processing time 0; the entries of the other ids    *)
(* are unchanged.                                                           *)
C14_OverrideCreatesEntry == [][C14_Step]_vars

C14_Witness ==
    /\ DOMAIN mappingResults = { "ism-001", "ism-002" }
    /\ mappingResults["ism-001"] = JobRef(1, 1)
    /\ mappingResults["ism-002"] = OverrideRef("ism-002")
    /\ objs[OverrideRef("ism-002")].aiModel = "manual-override"
    /\ Len(objs[OverrideRef("ism-002")].nistMappings) = 1
    /\ IsOverrideOf(objs[OverrideRef("ism-002")].nistMappings[1], "SC-7", 40)
    /\ overrideCount = 1

C15_Step ==
    \A id \in CatalogISMIds, t \in OverrideTargets, c \in OverrideConfidences :
        Applies(id, t, c) /\ id \in DOMAIN mappingResults =>
            LET ref == mappingResults[id]
                old == objs[ref].nistMappings
                new == objs'[ref].nistMappings
                hits == { n \in 1 .. Len(old) : old[n].nistControlId = t }
            IN  /\ mappingResults' = mappingResults
                /\ IF hits # {}
                   THEN LET first == CHOOSE n \in hits : \A m \in hits : n <= m
                        IN  /\ Len(new) = Len(old)
                            /\ IsOverrideOf(new[first], t, c)
                            /\ \A m \in 1 .. Len(old) :
                                  m # first => new[m] = old[m]
                   ELSE /\ Len(new) = Len(old) + 1
                        /\ IsOverrideOf(new[Len(new)], t, c)
                        /\ \A m \in 1 .. Len(old) : new[m] = old[m]
                /\ objs'[ref].ismControlId = objs[ref].ismControlId
                /\ objs'[ref].aiModel = objs[ref].aiModel
                /\ objs'[ref].processingTime = objs[ref].processingTime
                /\ DOMAIN objs' = DOMAIN objs
                /\ \A r \in DOMAIN objs \ {ref} : objs'[r] = objs[r]

KthOf(K, k) == CHOOSE n \in K : Cardinality({ m \in K : m <= n }) = k

C16_Step ==
    \A id \in CatalogISMIds, t \in OverrideTargets :
        removeManualOverride(id, t) =>
            /\ mappingResults' = mappingResults
            /\ DOMAIN objs' = DOMAIN objs
            /\ id \notin DOMAIN mappingResults => objs' = objs
            /\ id \in DOMAIN mappingResults =>
                  LET ref == mappingResults[id]
                      old == objs[ref].nistMappings
                      new == objs'[ref].nistMappings
                      kept == { n \in 1 .. Len(old) :
                                  ~(old[n].nistControlId = t /\ old[n].isManualOverride) }
                  IN  /\ Len(new) = Cardinality(kept)
                      /\ \A k \in 1 .. Len(new) : new[k] = old[KthOf(kept, k)]
                      /\ SelectSeq(new, LAMBDA m : ~m.isManualOverride) =
                             SelectSeq(old, LAMBDA m : ~m.isManualOverride)
                      /\ SelectSeq(new, LAMBDA m : m.nistControlId # t) =
                             SelectSeq(old, LAMBDA m : m.nistControlId # t)
                      /\ \A k \in 1 .. Len(new) :
                            ~(new[k].nistControlId = t /\ new[k].isManualOverride)
                      /\ objs'[ref].aiModel = objs[ref].aiModel
                      /\ objs'[ref].processingTime = objs[ref].processingTime
                      /\ \A r \in DOMAIN objs \ {ref} : objs'[r] = objs[r]

(* C16 removeManualOverride removes from the entry only the correspondences *)
(* with the target id whose override flag is set: a correspondence that is  *)
(* no override is never removed, the others keep their order, and without   *)
(* an entry for the id the call changes nothing.                            *)
C16_RemoveOnlyOverrides == [][C16_Step]_vars

C16_Witness ==
    /\ overrideCount >= 1
    /\ OverrideRef("ism-001") \notin DOMAIN objs
    /\ OverrideRef("ism-002") \notin DOMAIN objs
    /\ DOMAIN mappingResults = { "ism-001" }
    /\ mappingResults["ism-001"] = JobRef(1, 1)
    /\ Len(objs[JobRef(1, 1)].nistMappings) = 1
    /\ objs[JobRef(1, 1)].nistMappings[1].nistControlId = "AC-1"
    /\ ~objs[JobRef(1, 1)].nistMappings[1].isManualOverride

----------------------------------------------------------------------------
(* Properties of reset *)

(* C17 When reset() returns the mapping state is empty: getAllMappingResults *)
(* is empty, getMappingResult is null for every id and totalMappings is 0;   *)
(* and the jobs table is empty: getJobStatus is null for every id.           *)
C17_ResetClears ==
    lastCall.op = "reset" =>
        /\ getAllMappingResults = {}
        /\ \A id \in ISMIds : getMappingResult(id) = Null
        /\ getProcessingStats.totalMappings = 0
        /\ \A jobId \in JobIds : jobStatusOf(jobId) = Null

C17_Witness ==
    /\ lastCall.op = "reset"
    /\ 1 \in DOMAIN jobs
    /\ jobs[1].status = "completed"
    /\ DOMAIN jobs[1].results = { "ism-001" }
    /\ JobRef(1, 1) \in DOMAIN objs
    /\ Len(objs[JobRef(1, 1)].nistMappings) = 2
    /\ overrideCount >= 1

C18_Step ==
    (resetPending /\ lastCall'.op = "startProcessing") =>
        lastCall'.error = ErrNotInitialized

(* C18 After reset() the engine is uninitialized: a startProcessing call  *)
(* made after a reset(), with no initialize() between the two, is rejected *)
(* with the error of the missing service, whether or not initialize() had  *)
(* been called before the reset.                                           *)
C18_ResetUninitializes == [][C18_Step]_vars

(* A job was admitted after a reset() that no initialize() followed *)
C18_StartedAfterReset ==
    /\ resetPending
    /\ lastCall.op = "startProcessing"
    /\ lastCall.error = Null
    /\ lastCall.ret \in activeJobs

----------------------------------------------------------------------------
(* Properties of the parser *)

(* An element without an id, a numeric confidence or a reasoning it can use: *)
(* the field is absent or, for the two texts, empty, or the id is no string  *)
Lacks(m) ==
    \/ m.nistControlId \in { Missing, "", NotAString }
    \/ m.confidence = MissingNumber
    \/ m.reasoning \in { Missing, "" }

Malformed(content) ==
    \/ content.json \in { "none", "invalid" }
    \/ content.kind \in { "missing", "notArray" }
    \/ \E n \in 1 .. Len(content.mappings) : Lacks(content.mappings[n])

IsFallback(mappings) ==
    /\ Len(mappings) = 1
    /\ mappings[1].nistControlId = "AC-1"
    /\ mappings[1].confidence = FallbackConfidence
    /\ mappings[1].reasoning = FallbackReasoning

IsNormalizedFrom(mappings, elements) ==
    /\ Len(mappings) = Len(elements)
    /\ \A n \in 1 .. Len(elements) :
          /\ mappings[n].nistControlId = "AC-1"
          /\ mappings[n].reasoning = elements[n].reasoning
          /\ mappings[n].confidence \in 0 .. 100
          /\ elements[n].confidence \in 0 .. 100 =>
                 mappings[n].confidence = elements[n].confidence

(* C19 Parsing a response text never throws. It yields the normalized        *)
(* candidate of every element of the mappings array, or, when no JSON object *)
(* is found, the JSON is invalid, mappings is missing or no array, or any    *)
(* one element lacks its id, a numeric confidence or its reasoning, exactly  *)
(* the single fallback candidate; one bad element rejects the whole          *)
(* response.                                                                 *)
C19_MalformedOutputResilience ==
    lastCall.op = "parseResponse" =>
        /\ lastCall.error = Null
        /\ IF Malformed(lastCall.arg) THEN IsFallback(lastCall.ret)
           ELSE IsNormalizedFrom(lastCall.ret, lastCall.arg.mappings)

(* One bad element beside a good one: the fallback, not the good element *)
C19_Witness ==
    /\ lastCall.op = "parseResponse"
    /\ lastCall.arg.kind = "array"
    /\ Len(lastCall.arg.mappings) = 2
    /\ ~Lacks(lastCall.arg.mappings[1])
    /\ lastCall.arg.mappings[2].confidence = MissingNumber
    /\ IsFallback(lastCall.ret)

(* min(100, max(0, c)), written out *)
Clamped(c) == IF c <= 0 THEN 0 ELSE IF c >= 100 THEN 100 ELSE c

(* C20 The stored confidence of a parsed confidence c is min(100, max(0, c)): *)
(* it lies in [0,100], is c when 0 <= c <= 100, 0 for c <= 0 and 100 for      *)
(* c >= 100, and does not decrease when c grows; so every correspondence of   *)
(* the entry an analysis writes has its confidence in [0,100].                *)
C20_ConfidenceClamp ==
    (lastCall.op = "parseResponse" /\ ~Malformed(lastCall.arg)) =>
        LET elements == lastCall.arg.mappings
            stored == lastCall.ret
        IN  /\ Len(stored) = Len(elements)
            /\ \A n \in 1 .. Len(elements) :
                  /\ stored[n].confidence = Clamped(elements[n].confidence)
                  /\ stored[n].confidence \in 0 .. 100
            /\ \A n, m \in 1 .. Len(elements) :
                  elements[n].confidence <= elements[m].confidence =>
                      stored[n].confidence <= stored[m].confidence
            /\ \A id \in CatalogISMIds, t \in ProcessingTimes :
                  LET entry == mappingResultOf(id, stored, t)
                  IN  \A n \in 1 .. Len(entry.nistMappings) :
                          entry.nistMappings[n].confidence \in 0 .. 100

(* A confidence below the range beside one above it, both stored clamped *)
C20_Witness ==
    /\ lastCall.op = "parseResponse"
    /\ ~Malformed(lastCall.arg)
    /\ Len(lastCall.arg.mappings) = 2
    /\ lastCall.arg.mappings[1].confidence < 0
    /\ lastCall.arg.mappings[2].confidence > 100
    /\ lastCall.ret[1].confidence = 0
    /\ lastCall.ret[2].confidence = 100

(* C21 The analysis of one control yields at most three candidates: for *)
(* every response the parsed list, and so the entry a job builds from it, *)
(* has between zero and three correspondences.                            *)
C21_AtMostThreeCandidates ==
    lastCall.op = "parseResponse" =>
        /\ Len(lastCall.ret) <= PromptedMappings
        /\ \A id \in CatalogISMIds, t \in ProcessingTimes :
              Len(mappingResultOf(id, lastCall.ret, t).nistMappings) <= PromptedMappings

(* An answer of four well-formed elements is returned whole *)
C21_FourCandidates ==
    /\ lastCall.op = "parseResponse"
    /\ Len(lastCall.arg.mappings) = PromptedMappings + 1
    /\ Len(lastCall.ret) = PromptedMappings + 1

----------------------------------------------------------------------------
(* Properties of the catalog store *)

C24_Step ==
    /\ (lastCall'.op = "loadAllControls" /\ LoadsInFlight > 0) =>
           /\ lastCall'.error = ErrAlreadyLoading
           /\ UNCHANGED catalogVars
    /\ LoadsInFlight' < LoadsInFlight => ~loadingStatus'.isLoading

(* C24 A loadAllControls() call made while another one is in flight fails   *)
(* with the already-loading error and starts no load; and when an admitted  *)
(* loadAllControls() finishes, in success or in failure, isLoading is false. *)
C24_LoadGuard == [][C24_Step]_vars

(* Two admitted loadAllControls() calls are in flight at once *)
C24_TwoLoadsInFlight == LoadsInFlight = 2

C25_Flags ==
    /\ isReady <=> (loadingStatus.ismControlsLoaded /\ loadingStatus.nistControlsLoaded)
    /\ loadingStatus.ismControlsLoaded =>
           loadingStatus.ismControlCount = Len(ismControls)
    /\ loadingStatus.nistControlsLoaded =>
           loadingStatus.nistControlCount = Len(nistControls)

C25_Step ==
    /\ LoadNISTRejected =>
          /\ ~loadingStatus'.nistControlsLoaded
          /\ loadingStatus'.nistControlCount = 0
          /\ loadingStatus'.error = ErrLoadNIST
          /\ ~isReady'
          /\ ismControls' = ismControls
          /\ loadingStatus'.ismControlsLoaded = loadingStatus.ismControlsLoaded
          /\ loadingStatus'.ismControlCount = loadingStatus.ismControlCount
    /\ LoadISMRejected =>
          /\ loadingStatus'.error = ErrLoadISM
          /\ ~isReady'

(* C25 When loadAllControls() has loaded source A and then fails on source  *)
(* B, what the load of A left is kept: flag true, count the length of the   *)
(* list; and the B flag is false, its count 0, the message recorded and     *)
(* isReady() false. isReady() is true exactly when both flags are, so any   *)
(* failed load leaves it false.                                             *)
C25_PartialLoadState == []C25_Flags /\ [][C25_Step]_vars

C25_Witness ==
    /\ loadingStatus.ismControlsLoaded
    /\ loadingStatus.ismControlCount = Len(ISMCatalog)
    /\ ismControls = ISMCatalog
    /\ ~loadingStatus.nistControlsLoaded
    /\ loadingStatus.nistControlCount = 0
    /\ loadingStatus.error = ErrLoadNIST
    /\ ~loadingStatus.isLoading
    /\ ~isReady

----------------------------------------------------------------------------
(* Properties of the statistics *)

(* C22 In every reachable state calculateProcessingMetadata() returns  *)
(* unmappedControls and processedControls, the number of entries, with *)
(* unmappedControls + processedControls = totalISMControls, the number *)
(* of source-A controls the catalog store holds at that moment.        *)
C22_StatsConsistency ==
    LET m == calculateProcessingMetadata
    IN  /\ m.processedControls = Cardinality(DOMAIN mappingResults)
        /\ m.totalISMControls = Len(ismControls)
        /\ m.unmappedControls + m.processedControls = m.totalISMControls

(* More entries than the catalog holds controls *)
C22_Witness ==
    /\ Cardinality(DOMAIN mappingResults) = 3
    /\ Len(ismControls) = 1
    /\ calculateProcessingMetadata.unmappedControls = -2

(* Every correspondence of every entry, as <<id, position>> *)
AllCorrespondences ==
    UNION { { <<id, n>> : n \in 1 .. Len(objs[mappingResults[id]].nistMappings) } :
              id \in DOMAIN mappingResults }

ConfidenceAt(x) == objs[mappingResults[x[1]]].nistMappings[x[2]].confidence

RECURSIVE SumOfConfidences(_)
SumOfConfidences(xs) ==
    IF xs = {} THEN 0
    ELSE LET x == CHOOSE y \in xs : TRUE
         IN  ConfidenceAt(x) + SumOfConfidences(xs \ {x})

(* C23 averageConfidence is the sum of the confidences of all             *)
(* correspondences of all entries divided by their number, not the mean   *)
(* of the entries' means, and 0 when there is none; highConfidenceMappings *)
(* is the number of correspondences with confidence >= 70.                *)
C23_AverageConfidence ==
    LET m == calculateProcessingMetadata
        count == Cardinality(AllCorrespondences)
    IN  /\ count > 0 =>
              /\ m.averageConfidence.den > 0
              /\ m.averageConfidence.num * count =
                     SumOfConfidences(AllCorrespondences) * m.averageConfidence.den
        /\ count = 0 => m.averageConfidence.num = 0
        /\ m.highConfidenceMappings =
               Cardinality({ x \in AllCorrespondences : ConfidenceAt(x) >= 70 })

(* Two entries, of two correspondences (80, 100) and of one (85): the mean *)
(* of all three is 265/3, the mean of the two means 175/2                  *)
C23_Witness ==
    /\ DOMAIN mappingResults = CatalogISMIds
    /\ \E a, b \in CatalogISMIds :
          /\ confidencesOf(objs[mappingResults[a]]) = <<80, 100>>
          /\ confidencesOf(objs[mappingResults[b]]) = <<85>>
    /\ calculateProcessingMetadata.averageConfidence = Quotient(265, 3)
    /\ calculateProcessingMetadata.highConfidenceMappings = 3

----------------------------------------------------------------------------
(* Properties of the reads beside the catalog store *)

(* The source-B control a read finds for a target id in the catalog store *)
HasControl(nistControlId) ==
    \E n \in 1 .. Len(nistControls) :
        toLowerCase(nistControls[n].id) = toLowerCase(nistControlId)

(* C26 The title and description a read returns for a correspondence are  *)
(* those of the matching source-B control in the catalog store at the     *)
(* time of the read: after a reload that retitles the target, or brings   *)
(* its id in, a read returns the new title though no entry was rewritten. *)
C26_ReadTimeEnrichment ==
    \A id \in DOMAIN mappingResults :
        \A n \in 1 .. Len(getMappingResult(id).nistMappings) :
            LET mapping == getMappingResult(id).nistMappings[n]
            IN  HasControl(mapping.nistControlId) =>
                    /\ mapping.nistTitle =
                           getNISTControlMetadata(mapping.nistControlId).title
                    /\ mapping.nistDescription =
                           getNISTControlMetadata(mapping.nistControlId).description

(* The catalog holds the revised AC-1 and a read still returns the title *)
(* it had when the entry was written                                     *)
C26_StaleTitle ==
    /\ nistControls = NISTCatalogRevised
    /\ "ism-001" \in DOMAIN mappingResults
    /\ getMappingResult("ism-001").nistMappings[1].nistControlId = "AC-1"
    /\ getMappingResult("ism-001").nistMappings[1].nistTitle = NistAC1.title

----------------------------------------------------------------------------
(* Properties of the writes to one entry *)

(* The entries of the ids other than id are what they were *)
OthersUntouched(id) ==
    \A other \in DOMAIN mappingResults \ {id} :
        /\ other \in DOMAIN mappingResults'
        /\ mappingResults'[other] = mappingResults[other]
        /\ objs'[mappingResults[other]] = objs[mappingResults[other]]

(* Job j's callback stores the result of its analysis of a control *)
C27_AnalysisStep ==
    \A j \in DOMAIN progressLog :
        LET n == Len(progressLog'[j])
            id == progressLog'[j][n].controlId
        IN  (n = Len(progressLog[j]) + 1 /\ progressLog'[j][n].hasResult) =>
                /\ DOMAIN mappingResults' = DOMAIN mappingResults \cup {id}
                /\ mappingResults'[id] = JobRef(j, n)
                /\ \E r \in Responses, t \in ProcessingTimes :
                      objs'[JobRef(j, n)] = mappingResultOf(id, parseResponse(r), t)
                /\ \A k \in 1 .. Len(objs'[JobRef(j, n)].nistMappings) :
                      ~objs'[JobRef(j, n)].nistMappings[k].isManualOverride
                /\ OthersUntouched(id)

C27_OverrideStep ==
    \A id \in CatalogISMIds, t \in OverrideTargets, c \in OverrideConfidences :
        applyManualOverride(id, t, c, OverrideReasoning) =>
            /\ id \in DOMAIN mappingResults =>
                  /\ mappingResults' = mappingResults
                  /\ \A ref \in DOMAIN objs \ {mappingResults[id]} : objs'[ref] = objs[ref]
            /\ \E k \in 1 .. Len(objs'[mappingResults'[id]].nistMappings) :
                  IsOverrideOf(objs'[mappingResults'[id]].nistMappings[k], t, c)
            /\ OthersUntouched(id)

(* C27 Last writer wins per key: a successful analysis of an id replaces   *)
(* that id's entry whole, override correspondences included; an override   *)
(* applied after it modifies the new entry; whichever of the two writes    *)
(* came last made the entry seen afterwards; and a write to one id changes *)
(* no other id's entry.                                                    *)
C27_LastWriterWins == [][C27_AnalysisStep /\ C27_OverrideStep]_vars

(* An entry an override created was replaced by the analysis, and the entry *)
(* of the analysis was then overridden                                      *)
C27_Witness ==
    /\ OverrideRef("ism-002") \in DOMAIN objs
    /\ "ism-002" \in DOMAIN mappingResults
    /\ mappingResults["ism-002"] = JobRef(1, 2)
    /\ \E k \in 1 .. Len(objs[JobRef(1, 2)].nistMappings) :
          objs[JobRef(1, 2)].nistMappings[k].isManualOverride
    /\ \A k \in 1 .. Len(objs[OverrideRef("ism-002")].nistMappings) :
          objs[OverrideRef("ism-002")].nistMappings[k].isManualOverride

----------------------------------------------------------------------------
(* Properties of the catalog store beside the engine *)

(* A step of the catalog store: reset(), or a step of a load *)
C28_Step ==
    (lastCall'.op = "ControlService.reset" \/ catalogVars' # catalogVars) =>
        UNCHANGED <<mappingResults, objs, jobs, activeJobs, resultsQueue>>

(* C28 ControlService.reset() and every load or reload of a catalog leave *)
(* every entry of the mapping state, every job and the results queue as   *)
(* they were, so an entry may name a source-A id the catalog store no     *)
(* longer holds.                                                          *)
C28_NoCascade == [][C28_Step]_vars

(* After reset() the store is empty and the entry of ism-001, the job that *)
(* wrote it and its queue item are still there                             *)
C28_Witness ==
    /\ lastCall.op = "ControlService.reset"
    /\ ismControls = << >>
    /\ "ism-001" \in DOMAIN mappingResults
    /\ mappingResults["ism-001"] = JobRef(1, 1)
    /\ 1 \in activeJobs
    /\ [jobId |-> 1, result |-> JobRef(1, 1)] \in SeqToSet(resultsQueue)

----------------------------------------------------------------------------
(* Properties of termination *)

Ended(j) ==
    /\ j \in DOMAIN jobs
    /\ jobs[j].status \in { "completed", "failed" }
    /\ jobs[j].ended

C29_EndIsFinal ==
    \A j \in DOMAIN jobs :
        Ended(j) => /\ j \in DOMAIN jobs'
                    /\ jobs'[j].ended
                    /\ jobs'[j].status = jobs[j].status

(* C29 Given that every text-generation call returns or fails in the end, *)
(* every job startProcessing returned reaches the status completed or     *)
(* failed and has an end time from then on; no operation cancels it,      *)
(* reset() included.                                                      *)
C29_Termination ==
    /\ \A j \in JobIds : (j \in DOMAIN jobs) ~> Ended(j)
    /\ [][C29_EndIsFinal]_vars

(* A job that reset() took out of the table while it ran has ended *)
C29_Witness ==
    /\ Ended(1)
    /\ 1 \notin activeJobs
    /\ Len(progressLog[1]) = Len(ISMCatalog)
    /\ \E id \in DOMAIN mappingResults : mappingResults[id] = JobRef(1, Len(ISMCatalog))

----------------------------------------------------------------------------
(* Properties of the report *)

(* Every correspondence of the report, as <<entry, position>> *)
ReportCorrespondences(mappings) ==
    UNION { { <<e, n>> : n \in 1 .. Len(mappings[e].nistMappings) } :
              e \in 1 .. Len(mappings) }

InBand(mappings, lo, hi) ==
    Cardinality({ x \in ReportCorrespondences(mappings) :
                    /\ lo <= mappings[x[1]].nistMappings[x[2]].confidence
                    /\ mappings[x[1]].nistMappings[x[2]].confidence <= hi })

(* C30 generateSummaryStats counts every correspondence in exactly one of *)
(* the bands [95,100], [85,94], [75,84], [65,74], [55,64], [0,54] by its  *)
(* confidence, so the six counts sum to totalMappings, the number of      *)
(* correspondences; and manualOverrides is the number of correspondences  *)
(* whose override flag is set.                                            *)
C30_ConfidenceHistogram ==
    lastCall.op = "generateSummaryStats" =>
        LET mappings == lastCall.arg
            stats == lastCall.ret
            d == stats.confidenceDistribution
        IN  /\ d[Bands[1]] = InBand(mappings, 95, 100)
            /\ d[Bands[2]] = InBand(mappings, 85, 94)
            /\ d[Bands[3]] = InBand(mappings, 75, 84)
            /\ d[Bands[4]] = InBand(mappings, 65, 74)
            /\ d[Bands[5]] = InBand(mappings, 55, 64)
            /\ d[Bands[6]] = InBand(mappings, 0, 54)
            /\ stats.totalMappings = Cardinality(ReportCorrespondences(mappings))
            /\ d[Bands[1]] + d[Bands[2]] + d[Bands[3]] + d[Bands[4]] + d[Bands[5]]
                   + d[Bands[6]] = stats.totalMappings
            /\ stats.manualOverrides =
                   Cardinality({ x \in ReportCorrespondences(mappings) :
                                   mappings[x[1]].nistMappings[x[2]].isManualOverride })

(* Two entries of four correspondences: 85 and 84 on either side of a *)
(* limit, and two overrides of 95 and 40                              *)
C30_Witness ==
    /\ lastCall.op = "generateSummaryStats"
    /\ Len(lastCall.arg) = 2
    /\ confidencesOf(lastCall.arg[1]) = <<85, 84, 95>>
    /\ confidencesOf(lastCall.arg[2]) = <<40>>
    /\ lastCall.ret.totalMappings = 4
    /\ lastCall.ret.manualOverrides = 2
    /\ lastCall.ret.confidenceDistribution[Bands[2]] = 1
    /\ lastCall.ret.confidenceDistribution[Bands[3]] = 1

(* C31 averageProcessingTime is the sum of the entries' processing times *)
(* divided by the number of entries whenever the report has an entry, the *)
(* entries without correspondences included, and 0 when it has none.      *)
C31_AverageProcessingTime ==
    lastCall.op = "generateSummaryStats" =>
        LET mappings == lastCall.arg
        IN  lastCall.ret.averageProcessingTime =
                IF Len(mappings) > 0
                THEN Quotient(Sum(processingTimesOf(mappings)), Len(mappings))
                ELSE Quotient(0, 1)

(* A report of one entry that took its time and holds no correspondence: *)
(* the average comes out as 0                                            *)
C31_EntryWithoutCorrespondences ==
    /\ lastCall.op = "generateSummaryStats"
    /\ Len(lastCall.arg) = 1
    /\ lastCall.arg[1].nistMappings = << >>
    /\ lastCall.arg[1].processingTime > 0
    /\ lastCall.ret.totalMappings = 0
    /\ lastCall.ret.averageProcessingTime = Quotient(0, 1)

----------------------------------------------------------------------------
(* Properties of overlapping calls *)

(* C32 The status queued is never observable: when startProcessing returns *)
(* the job id, the job is in the jobs table and its status is already      *)
(* processing, although it was created as queued; no job of the table is   *)
(* queued in any state, and getJobStatus never returns a queued job.       *)
C32_QueuedNeverObservable ==
    /\ \A j \in activeJobs : jobStatusOf(j).status # "queued"
    /\ (lastCall.op = "startProcessing" /\ lastCall.error = Null) =>
           /\ lastCall.ret \in activeJobs
           /\ jobs[lastCall.ret].status = "processing"
           /\ statusLog[lastCall.ret] = <<"queued", "processing">>
    /\ (lastCall.op = "getJobStatus" /\ lastCall.arg \in activeJobs) =>
           lastCall.ret.status # "queued"

(* getJobStatus right after startProcessing, before any item has settled *)
C32_Witness ==
    /\ lastCall.op = "getJobStatus"
    /\ lastCall.arg \in activeJobs
    /\ lastCall.ret.status = "processing"
    /\ lastCall.ret.processedControls = 0
    /\ statusLog[lastCall.arg] = <<"queued", "processing">>
    /\ progressLog[lastCall.arg] = << >>

C33_Step ==
    /\ lastCall'.op = "reset" =>
           /\ resultsQueue' = resultsQueue
           /\ mappingResults' = << >>
           /\ activeJobs' = {}
    /\ (lastCall'.op = "getNewResults" /\ lastCall'.arg = NoJob) =>
           /\ lastCall'.ret = resultsQueue
           /\ resultsQueue' = << >>

(* C33 reset() leaves the results queue as it is: the items pushed before *)
(* a reset() and not yet polled are returned by the next getNewResults()  *)
(* after it, although the mapping state and the jobs table are empty.     *)
C33_ResetLeavesQueue == [][C33_Step]_vars

(* getNewResults() returns an item while the mapping state and the jobs *)
(* table are empty, reset() having been called after the item's push    *)
C33_Witness ==
    /\ lastCall.op = "getNewResults"
    /\ Len(lastCall.ret) > 0
    /\ resetPending
    /\ mappingResults = << >>
    /\ activeJobs = {}
    /\ resultsQueue = << >>

(* A job that reset() took out of the jobs table while it was running *)
Orphaned(j) == j \in DOMAIN run /\ j \notin activeJobs /\ run[j].pc # "done"

C34_Step ==
    /\ (lastCall'.op = "getJobStatus" /\ lastCall'.arg \notin activeJobs) =>
           lastCall'.ret = Null
    /\ \A j \in DOMAIN run :
           (lastCall'.op = "reset" /\ run[j].pc # "done") =>
               /\ Orphaned(j)'
               /\ run'[j] = run[j]
               /\ jobs'[j] = jobs[j]
    /\ \A j \in DOMAIN run :
           Orphaned(j) =>
               /\ j \notin activeJobs'
               /\ ItemsReported(j) = 1 =>
                     LET e == progressLog'[j][Len(progressLog'[j])]
                         ref == JobRef(j, e.completed)
                     IN  e.hasResult =>
                            /\ mappingResults' = Put(mappingResults, e.controlId, ref)
                            /\ objs'[ref].ismControlId = e.controlId
                            /\ resultsQueue' =
                                   Append(resultsQueue, [jobId |-> j, result |-> ref])

(* C34 reset() does not stop a job in flight: after it getJobStatus of the *)
(* job returns null, the job's run goes on as it was, and every item that  *)
(* succeeds after the reset inserts its entry into the mapping state and   *)
(* pushes a results-queue item, so that the mapping state is not empty     *)
(* again with no new start and no override.                                *)
C34_ResetDoesNotStopJob == [][C34_Step]_vars

(* The only job ever started is out of the table, getJobStatus returned  *)
(* null for it, and the mapping state holds the entry it wrote since the *)
(* reset                                                                 *)
C34_Witness ==
    /\ lastCall.op = "getJobStatus"
    /\ lastCall.arg = 1
    /\ DOMAIN jobs = {1}
    /\ activeJobs = {}
    /\ lastCall.ret = Null
    /\ resetPending
    /\ overrideCount = 0
    /\ DOMAIN mappingResults # {}
    /\ \E n \in 1 .. Len(resultsQueue) : resultsQueue[n].jobId = 1

Processing == { j \in DOMAIN jobs : jobs[j].status = "processing" }

C35_Step ==
    /\ (lastCall'.op = "startProcessing" /\ lastCall'.error = Null) =>
           /\ lastCall'.ret \notin DOMAIN jobs
           /\ DOMAIN jobs' = DOMAIN jobs \cup { lastCall'.ret }
           /\ \A k \in DOMAIN jobs : jobs'[k] = jobs[k] /\ run'[k] = run[k]
           /\ jobs'[lastCall'.ret].processedControls = 0
    /\ \A j \in DOMAIN progressLog :
           ItemsReported(j) > 0 =>
               LET e == progressLog'[j][Len(progressLog'[j])]
               IN  /\ \A k \in DOMAIN jobs \ {j} : jobs'[k] = jobs[k]
                   /\ e.hasResult =>
                         /\ mappingResults'[e.controlId] = JobRef(j, e.completed)
                         /\ resultsQueue'[Len(resultsQueue')].jobId = j
                         /\ resultsQueue'[Len(resultsQueue')].result =
                                JobRef(j, e.completed)

C35_State ==
    /\ \A j \in DOMAIN jobs :
           /\ jobs[j].id = j
           /\ jobs[j].processedControls = Len(progressLog[j])
           /\ jobs[j].totalControls = Len(run[j].ismControls)
           /\ run[j].pc = "done" =>
                 /\ jobs[j].status = "completed"
                 /\ jobs[j].processedControls = jobs[j].totalControls
    /\ \A n \in 1 .. Len(resultsQueue) :
           /\ resultsQueue[n].jobId \in DOMAIN jobs
           /\ resultsQueue[n].result[1] = resultsQueue[n].jobId

(* C35 Jobs overlap: startProcessing is admitted while another job is      *)
(* processing; the jobs in flight have distinct ids and counters of their  *)
(* own, each ends completed with processedControls equal to its own        *)
(* totalControls, each queue item carries the id of the job that produced  *)
(* it, and for a control analysed by both jobs the mapping state holds the *)
(* entry of the analysis that settled last.                                *)
C35_OverlappingJobs == [][C35_Step]_vars /\ []C35_State

(* Both jobs over the whole catalog have ended; the second was started   *)
(* while the first was processing, and the entry of the first control is *)
(* the first job's, which settled after the second job's                 *)
C35_Witness ==
    /\ DOMAIN jobs = {1, 2}
    /\ \A j \in {1, 2} :
           /\ jobs[j].status = "completed"
           /\ jobs[j].totalControls = 2
           /\ jobs[j].processedControls = 2
           /\ DOMAIN jobs[j].results = CatalogISMIds
    /\ mappingResults["ism-001"] = JobRef(1, 1)
    /\ mappingResults["ism-002"] = JobRef(2, 2)
    /\ \E n \in 1 .. Len(resultsQueue) : resultsQueue[n].jobId = 1
    /\ \E n \in 1 .. Len(resultsQueue) : resultsQueue[n].jobId = 2

----------------------------------------------------------------------------
(* Properties of the empty catalogs *)

C36_Step ==
    (/\ lastCall'.op = "startProcessing"
     /\ aiService
     /\ isReady
     /\ Len(selectControls(lastCall'.arg)) > 0
     /\ Len(nistControls) = 0) =>
        /\ lastCall'.error = ErrNoNIST
        /\ lastCall'.ret = NoJob
        /\ jobs' = jobs
        /\ activeJobs' = activeJobs
        /\ run' = run

(* C36 startProcessing fails with 'No NIST controls loaded for mapping    *)
(* reference' and registers no job when the source-B list is empty, even  *)
(* though the service is initialized, isReady() is true (both sources     *)
(* loaded, source B with no control) and the source-A batch is not empty. *)
C36_NoNISTControls == [][C36_Step]_vars

C36_Witness ==
    /\ lastCall.op = "startProcessing"
    /\ lastCall.error = ErrNoNIST
    /\ aiService
    /\ isReady
    /\ loadingStatus.nistControlsLoaded
    /\ loadingStatus.nistControlCount = 0
    /\ nistControls = << >>
    /\ Len(selectControls(lastCall.arg)) > 0
    /\ DOMAIN jobs = {}

----------------------------------------------------------------------------
(* Properties of an override followed by its removal *)

(* The first correspondence of the list with the target id, or 0 *)
FirstHit(nistMappings, t) ==
    LET hits == { n \in 1 .. Len(nistMappings) : nistMappings[n].nistControlId = t }
    IN  IF hits = {} THEN 0 ELSE CHOOSE n \in hits : \A m \in hits : n <= m

Occurrences(nistMappings, m) == Cardinality({ n \in 1 .. Len(nistMappings) : nistMappings[n] = m })

C37_Step ==
    \A id \in CatalogISMIds, t \in OverrideTargets :
        /\ \A c \in OverrideConfidences :
              (/\ applyManualOverride(id, t, c, OverrideReasoning)
               /\ id \in DOMAIN mappingResults
               /\ FirstHit(objs[mappingResults[id]].nistMappings, t) # 0) =>
                  LET ref == mappingResults[id]
                      old == objs[ref].nistMappings
                      first == FirstHit(old, t)
                      back == withoutOverride(objs'[ref].nistMappings, t)
                  IN  ~old[first].isManualOverride =>
                         /\ back # old
                         /\ Len(back) = Len(withoutOverride(old, t)) - 1
                         /\ Occurrences(back, old[first]) = Occurrences(old, old[first]) - 1
                         /\ \A n \in 1 .. Len(back) :
                               ~(back[n].nistControlId = t /\ back[n].isManualOverride)
        /\ removeManualOverride(id, t) =>
              /\ mappingResults' = mappingResults
              /\ calculateProcessingMetadata'.unmappedControls =
                     calculateProcessingMetadata.unmappedControls
              /\ id \in DOMAIN mappingResults =>
                    objs'[mappingResults[id]].nistMappings =
                        withoutOverride(objs[mappingResults[id]].nistMappings, t)

(* C37 An override followed by its removal is no round trip: when         *)
(* applyManualOverride rewrites a correspondence the analysis wrote, what *)
(* a following removeManualOverride of the same pair leaves is the entry  *)
(* without that correspondence, not the entry as it was; the entry stays  *)
(* in the mapping state, with no correspondence at all when that was its  *)
(* only one, and unmappedControls does not change.                        *)
C37_OverrideThenRemove == [][C37_Step]_vars

(* The entry a job wrote with one correspondence, overridden once and the *)
(* override removed: it is there with no correspondence, and counted      *)
C37_Witness ==
    /\ overrideCount = 1
    /\ "ism-001" \in DOMAIN mappingResults
    /\ mappingResults["ism-001"] = JobRef(1, 1)
    /\ objs[JobRef(1, 1)].nistMappings = << >>
    /\ calculateProcessingMetadata.processedControls >= 1
    /\ calculateProcessingMetadata.unmappedControls =
           Len(ismControls) - Cardinality(DOMAIN mappingResults)

----------------------------------------------------------------------------
(* Properties of a failed item *)

C38_Step ==
    \A j \in DOMAIN progressLog :
        ItemsReported(j) = 1 =>
            LET e == progressLog'[j][Len(progressLog'[j])]
                id == e.controlId
            IN  ~e.hasResult =>
                   /\ id \in DOMAIN mappingResults <=> id \in DOMAIN mappingResults'
                   /\ id \in DOMAIN mappingResults =>
                         /\ mappingResults'[id] = mappingResults[id]
                         /\ objs'[mappingResults[id]] = objs[mappingResults[id]]
                   /\ resultsQueue' = resultsQueue
                   /\ JobRef(j, e.completed) \notin DOMAIN objs'

(* C38 A failed item leaves what exists for its id as it is: when the    *)
(* analysis of a control fails inside a job, the entry an earlier job or *)
(* an override left for that control is neither removed nor modified,    *)
(* and no results-queue item is pushed for it.                           *)
C38_FailedItemLeavesState == [][C38_Step]_vars

(* The second job's only item failed; the entry of its control is the *)
(* first job's, with the override made on it, and the queue holds no  *)
(* item of the second job                                             *)
C38_Witness ==
    /\ DOMAIN jobs = {1, 2}
    /\ FailedItems(2) = {1}
    /\ progressLog[2][1].controlId = "ism-001"
    /\ "ism-001" \in DOMAIN mappingResults
    /\ mappingResults["ism-001"] = JobRef(1, 1)
    /\ \E n \in 1 .. Len(objs[JobRef(1, 1)].nistMappings) :
           objs[JobRef(1, 1)].nistMappings[n].isManualOverride
    /\ \A n \in 1 .. Len(resultsQueue) : resultsQueue[n].jobId # 2

----------------------------------------------------------------------------
(* Properties of a reset of the catalog store during a load *)

C39_Step ==
    /\ (lastCall'.op = "ControlService.reset" /\ LoadsInFlight > 0) =>
           /\ ~loadingStatus'.isLoading
           /\ loadPc' = loadPc
           /\ ismControls' = << >> /\ nistControls' = << >>
           /\ ~isReady'
    /\ (lastCall'.op = "loadAllControls" /\ lastCall'.error = Null) =>
           /\ ~loadingStatus.isLoading
           /\ LoadsInFlight' = LoadsInFlight + 1
    /\ \A cat \in ISMCatalogs :
           LoadISMResolved(cat) =>
               /\ ismControls' = cat
               /\ loadingStatus'.ismControlsLoaded
               /\ loadingStatus'.ismControlCount = Len(cat)
    /\ \A cat \in NISTCatalogs :
           LoadNISTResolved(cat) =>
               /\ nistControls' = cat
               /\ loadingStatus'.nistControlsLoaded
               /\ loadingStatus'.nistControlCount = Len(cat)
               /\ isReady' <=> loadingStatus.ismControlsLoaded

(* C39 ControlService.reset() during a loadAllControls() clears the guard, *)
(* so that a second loadAllControls() is admitted beside the first; and    *)
(* when the sources of the first load resolve after the reset, the lists   *)
(* and the loaded flags are set again: the store is populated, and         *)
(* isReady() may be true, although reset() was the last call made.         *)
C39_ResetDuringLoad == [][C39_Step]_vars

(* No load is in flight and none has failed, source B is loaded and source *)
(* A is not: reset() was called between the two sources of the one load    *)
C39_Witness ==
    /\ LoadsInFlight = 0
    /\ ~loadingStatus.isLoading
    /\ loadingStatus.error = Null
    /\ ~loadingStatus.ismControlsLoaded
    /\ ismControls = << >>
    /\ loadingStatus.nistControlsLoaded
    /\ nistControls = NISTCatalog
    /\ loadingStatus.nistControlCount = Len(NISTCatalog)

----------------------------------------------------------------------------
(* Properties of the entries the catalog does not hold *)

C40_Step ==
    \A c \in OverrideConfidences :
        applyManualOverride(UnknownISMId, "SC-7", c, OverrideReasoning) =>
            /\ getISMControlById(UnknownISMId) = Null
            /\ DOMAIN mappingResults' = DOMAIN mappingResults \cup { UnknownISMId }
            /\ \E n \in 1 .. Len(objs'[mappingResults'[UnknownISMId]].nistMappings) :
                  LET m == objs'[mappingResults'[UnknownISMId]].nistMappings[n]
                  IN  m.nistControlId = "SC-7" /\ m.confidence = c /\ m.isManualOverride

C40_State ==
    LET entries == Cardinality(DOMAIN mappingResults)
    IN  /\ calculateProcessingMetadata.unmappedControls = Len(ismControls) - entries
        /\ entries > Len(ismControls) =>
              calculateProcessingMetadata.unmappedControls < 0

(* C40 applyManualOverride does not look the source-A id up in the catalog *)
(* store: an override of an id the catalog does not hold creates or keeps  *)
(* its entry, as every entry outlives a reset or reload of the catalog, so *)
(* the entries can outnumber totalISMControls, and                         *)
(* calculateProcessingMetadata() then reports a negative unmappedControls, *)
(* totalISMControls minus the number of entries.                           *)
C40_NegativeUnmapped == [][C40_Step]_vars /\ []C40_State

(* The whole catalog is loaded and analysed, and an override of an id it *)
(* does not hold makes a third entry: unmappedControls is -1             *)
C40_Witness ==
    /\ ismControls = ISMCatalog
    /\ isReady
    /\ DOMAIN mappingResults = CatalogISMIds \cup { UnknownISMId }
    /\ objs[mappingResults[UnknownISMId]].aiModel = "manual-override"
    /\ calculateProcessingMetadata.totalISMControls = Len(ISMCatalog)
    /\ calculateProcessingMetadata.processedControls = Len(ISMCatalog) + 1
    /\ calculateProcessingMetadata.unmappedControls = -1

====
